---- MODULE Spec2Model ----
(***************************************************************************)
(* FinScope frontend: the workflow session logic spread over               *)
(* WorkflowContext (provider state + localStorage effects), SECSearchPage, *)
(* UploadPage and AnalysisPage, together with the backend gateway the      *)
(* pages call.  One step of the model is one run of the browser's event    *)
(* loop: an event handler (or the continuation of an awaited fetch) runs   *)
(* to its next await, React 18 applies the batched state updates, and the  *)
(* effects whose dependencies changed run.                                 *)
(***************************************************************************)
EXTENDS Naturals, Integers, Sequences, FiniteSets, TLC

\* ------------------------------------------------------------------ bounds
MaxSessions == 2      \* sessions the backend allocates in one behaviour
MaxInflight == 2      \* fetches awaiting their continuation at one time
MaxChat == 2          \* chat sends in one behaviour

\* ------------------------------------------------------------- input sets
Tickers == {"T1"}
Accessions == {"F1", "F2"}
\* a filing as /api/get-filings lists it
Filing(accession_number, form_type, filing_date) ==
  [accession_number |-> accession_number, form_type |-> form_type,
   filing_date |-> filing_date]
\* the list the backend serves for a company
Listed(accession_number) == Filing(accession_number, "10-K", "2024-02-01")
Filings == {Listed(a) : a \in Accessions}
\* what the upload form's inputs can be set to, by field
FieldInputs ==
  [companyName |-> {"", "Acme"}, docTitle |-> {}, docType |-> {}, year |-> {}]
\* file names are the strings of their characters
FileNames == {<<"a", ".", "p", "d", "f">>, <<"b", ".", "T", "X", "T">>}
FileSizes == {1}
\* session ids of the recent chats and the lists /api/history/recent returns
\* (a session may be listed twice)
HistoryIds == {1, 2}
MaxHistory == 3
HistoryLists ==
  UNION {[1..n -> HistoryIds] : n \in 0..MaxHistory}
\* what comes back from /api/history/chat/:id: a 404, another non-OK status,
\* an OK response that is not JSON, an OK JSON response, a transport failure
DetailOutcomes == {"404", "500", "not-json", "json", "transport"}
\* files of any kind: other extensions, no extension, an allowed extension
\* inside the name, upper case, a name that is only an extension
DroppedNames ==
  {<<"a", ".", "p", "d", "f">>, <<"b", ".", "T", "X", "T">>, <<"c", ".", "e", "x", "e">>,
   <<"p", "d", "f">>, <<"a", ".", "p", "d", "f", ".", "x">>, <<".", "t", "x", "t">>,
   <<"a", ".", "P", "d", "F">>}
\* sizes below, at and above the limit of 10 MB
DroppedSizes == {1, 10485760, 10485761}
\* the size of a document saved again under its name
RevisedSizes == {2}
Routes == {"/", "/company", "/upload", "/analysis"}

\* ------------------------------------------------- values with a JS "null"
\* Every nullable object is a record of fixed shape; some = FALSE is null.
\* The falsy defaults (0, "") stand for undefined / '' / null fields, so
\* that x?.f and (x.f || '') read the field directly.

\* no filing; its accession_number reads as undefined
NullFiling == Filing("", "", "")

NullAnalysis ==
  [some |-> FALSE, sessionId |-> 0, executiveSummary |-> 0, newsArticles |-> 0,
   chatMessages |-> << >>, sourceType |-> ""]

NullSelection ==
  [some |-> FALSE, ticker |-> "", company_name |-> "", selected_filing |-> NullFiling]

NullMetadata ==
  [some |-> FALSE, companyName |-> "", docTitle |-> "", docType |-> "", year |-> ""]

NullFile == [some |-> FALSE, name |-> << >>, size |-> 0]

NullUploadAnalysis ==
  [some |-> FALSE, sessionId |-> 0, executiveSummary |-> 0, newsArticles |-> 0,
   submittedMetadata |-> NullMetadata, submittedFileName |-> << >>]

\* AnalysisPage.companyInfo: the header shown above a session
NullCompanyInfo ==
  [some |-> FALSE, ticker |-> "", companyName |-> "", filing |-> NullFiling, docTitle |-> "",
   docType |-> ""]

\* company_name of a search result, fixed by its ticker
CompanyNameOf(ticker) == IF ticker = "" THEN "" ELSE ticker \o " Inc"

\* updateSecWorkflowData builds selectionMetadata from the three fields
Selection(ticker, filing) ==
  [some |-> TRUE, ticker |-> ticker, company_name |-> CompanyNameOf(ticker),
   selected_filing |-> filing]

\* ------------------------------------------------------------ localStorage
\* A stored item is absent, a JSON text, or text that JSON.parse rejects.
Absent == [kind |-> "absent", json |-> << >>]
Malformed == [kind |-> "malformed", json |-> << >>]
\* JSON.stringify of a plain object: the text is kept as the one-element
\* tuple of the object it encodes
JSONstringify(obj) == [kind |-> "json", json |-> <<obj>>]
\* JSON.parse: succeeds on a JSON text only
ParseOk(item) == item.kind = "json"
JSONparse(item) == item.json[1]

\* ------------------------------------------------------------------- state
VARIABLES
  ctx,       \* WorkflowProvider state
  ls,        \* localStorage: finscope_active_session, _upload_data, _upload_meta
  sec,       \* SECSearchPage component state
  up,        \* UploadPage component state
  ap,        \* AnalysisPage component state
  lp,        \* LandingPage component state (the recent-chats panel)
  cdp,       \* ChatDetailPage component state
  route,     \* the route rendered by <Routes>
  locState,  \* location.state.isUpload of the current history entry
  inflight,  \* fetches issued whose continuation has not run yet
  sessions,  \* backend: sessions[sid] = the session allocated with id sid
  chatSends  \* number of chat sends so far (bounds the behaviour)

vars == <<ctx, ls, sec, up, ap, lp, cdp, route, locState, inflight, sessions, chatSends>>

\* ------------------------------------------------------- initial component state
InitCtx ==
  [analysisData |-> NullAnalysis, secWorkflowData |-> NullSelection,
   selectionMetadata |-> NullSelection, uploadMetadata |-> NullMetadata,
   selectedUploadFile |-> NullFile, uploadAnalysisData |-> NullUploadAnalysis,
   analysisLoading |-> FALSE]

InitLs == [active |-> Absent, uploadData |-> Absent, uploadMeta |-> Absent]

InitSec ==
  [selectedCompany |-> "", selectedFiling |-> NullFiling, filingsLoaded |-> FALSE,
   loadingFilings |-> FALSE, showConflictDialog |-> FALSE,
   showBackWarningDialog |-> FALSE, hasRestoredFromContext |-> FALSE]

InitUp ==
  [submittedMetadata |-> NullMetadata, submittedFileName |-> << >>,
   showReplaceModal |-> FALSE, showBackWarningModal |-> FALSE,
   isLoading |-> FALSE, fileError |-> FALSE]

InitAp ==
  [loading |-> FALSE, error |-> "", sessionId |-> 0, executiveSummary |-> 0,
   newsArticles |-> 0, companyInfo |-> NullCompanyInfo, chatMessages |-> << >>,
   sendingMessage |-> FALSE, showEndSessionDialog |-> FALSE,
   endingSession |-> FALSE, timer |-> FALSE]

\* history: the session_id of each entry of /api/history/recent, in order;
\* 0 stands for null in deletingId and sessionToDelete, "" in error
InitLp ==
  [history |-> << >>, loading |-> TRUE, error |-> "", deletingId |-> 0,
   showDeleteDialog |-> FALSE, sessionToDelete |-> 0]

\* sessionId: the route parameter; chatDetails: 0 for null
InitCdp == [sessionId |-> 0, chatDetails |-> 0, loading |-> TRUE, error |-> ""]

\* ---------------------------------------------------------------- fetches
\* A fetch carries what its continuation reads from the closure of the
\* render that issued it.  alive: the issuing component is still mounted
\* (its own setState calls still take effect).
NewReq(kind, handler, page) ==
  [kind |-> kind, handler |-> handler, page |-> page, status |-> "sent",
   alive |-> TRUE, sid |-> 0, sel |-> NullSelection, meta |-> NullMetadata,
   fileName |-> << >>, fileSize |-> 0, flag |-> FALSE, flag2 |-> FALSE, msgs |-> << >>,
   eager |-> FALSE]

\* The state one step works on: the variables the frontend owns, plus the
\* provider fields assigned in this step (React compares by identity) and
\* the message of the alert() the step raised, "" for none.
World ==
  [ctx |-> ctx, ls |-> ls, sec |-> sec, up |-> up, ap |-> ap, lp |-> lp, cdp |-> cdp,
   route |-> route, locState |-> locState, inflight |-> inflight, dirty |-> {},
   alert |-> "", thrown |-> ""]

Commit(w) ==
  /\ Len(w.inflight) <= MaxInflight
  /\ ctx' = w.ctx
  /\ ls' = w.ls
  /\ sec' = w.sec
  /\ up' = w.up
  /\ ap' = w.ap
  /\ lp' = w.lp
  /\ cdp' = w.cdp
  /\ route' = w.route
  /\ locState' = w.locState
  /\ inflight' = w.inflight

Fetch(w, req) == [w EXCEPT !.inflight = Append(@, req)]

\* useState setters of the provider
SetCtx(w, field, value) ==
  [w EXCEPT !.ctx[field] = value, !.dirty = @ \cup {field}]

setAnalysisData(w, value) == SetCtx(w, "analysisData", value)
setUploadAnalysisData(w, value) == SetCtx(w, "uploadAnalysisData", value)
setUploadMetadata(w, value) == SetCtx(w, "uploadMetadata", value)
setSelectedUploadFile(w, value) == SetCtx(w, "selectedUploadFile", value)

\* updateSecWorkflowData, exported as setSecWorkflowData
updateSecWorkflowData(w, data) ==
  LET w1 == SetCtx(w, "secWorkflowData", data)
  IN IF data.some
       THEN SetCtx(w1, "selectionMetadata",
                   [some |-> TRUE, ticker |-> data.ticker,
                    company_name |-> data.company_name,
                    selected_filing |-> data.selected_filing])
       ELSE SetCtx(w1, "selectionMetadata", NullSelection)

removeItem(w, key) == [w EXCEPT !.ls[key] = Absent]

\* clearActiveSession: inside the provider setSecWorkflowData names no binding
\* (the setter is setSecWorkflowDataState, the wrapper updateSecWorkflowData),
\* so the third statement throws a ReferenceError to the caller; the two
\* updates queued before it are rendered, removeItem is not reached.
clearActiveSession(w) ==
  [SetCtx(setAnalysisData(w, NullAnalysis), "selectionMetadata", NullSelection)
     EXCEPT !.thrown = "ReferenceError"]

\* A provider field changed identity in this step: it was assigned, and not
\* null over null.
Changed(old, w, field) ==
  /\ field \in w.dirty
  /\ (old.ctx[field].some \/ w.ctx[field].some)

ChangedAny(old, w, fields) == \E f \in fields : Changed(old, w, f)

\* The save effect on [analysisData, selectionMetadata, secWorkflowData]
ActiveSessionRecord(c) ==
  [analysisData |-> c.analysisData, selectionMetadata |-> c.selectionMetadata,
   secWorkflowData |-> c.secWorkflowData]

SaveActiveSession(w) ==
  IF w.ctx.analysisData.some \/ w.ctx.selectionMetadata.some
       \/ w.ctx.secWorkflowData.some
    THEN [w EXCEPT !.ls.active = JSONstringify(ActiveSessionRecord(w.ctx))]
    ELSE removeItem(w, "active")

\* The save effect on [uploadMetadata, uploadAnalysisData]
SaveUploadData(w) ==
  LET w1 == IF w.ctx.uploadMetadata.some
              THEN [w EXCEPT !.ls.uploadMeta = JSONstringify(w.ctx.uploadMetadata)]
              ELSE removeItem(w, "uploadMeta")
  IN IF w1.ctx.uploadAnalysisData.some
       THEN [w1 EXCEPT !.ls.uploadData = JSONstringify(w1.ctx.uploadAnalysisData)]
       ELSE removeItem(w1, "uploadData")

ActiveDeps == {"analysisData", "selectionMetadata", "secWorkflowData"}
UploadDeps == {"uploadMetadata", "uploadAnalysisData"}

\* save effects of which the first lists analysisData as its only dependency
ProviderEffectsOnAnalysisOnly(old, w) ==
  LET w1 == IF Changed(old, w, "analysisData") THEN SaveActiveSession(w) ELSE w
  IN IF ChangedAny(old, w1, UploadDeps) THEN SaveUploadData(w1) ELSE w1

\* The provider's two save effects, each run when one of its dependencies
\* changed in this step
ProviderEffects(old, w) ==
  LET w1 == IF ChangedAny(old, w, ActiveDeps) THEN SaveActiveSession(w) ELSE w
  IN IF ChangedAny(old, w1, UploadDeps) THEN SaveUploadData(w1) ELSE w1

\* navigate(to, {state}): the old page unmounts (its state is gone and its
\* pending continuations can no longer set it); the new page mounts in Flush.
\* A pending handleSendMessage keeps the transcript the page rendered last:
\* the hook's update queue outlives the component.
navigate(w, to, isUpload) ==
  IF to = w.route
    THEN [w EXCEPT !.locState = isUpload]
    ELSE [w EXCEPT !.route = to, !.locState = isUpload,
                   !.sec = InitSec, !.up = InitUp, !.ap = InitAp,
                   !.lp = InitLp, !.cdp = InitCdp,
                   !.inflight = [i \in DOMAIN @ |->
                                   IF @[i].page = w.route /\ @[i].alive
                                     THEN IF @[i].kind = "chat"
                                            THEN [@[i] EXCEPT !.alive = FALSE,
                                                              !.msgs = w.ap.chatMessages]
                                            ELSE [@[i] EXCEPT !.alive = FALSE]
                                     ELSE @[i]]]

\* ------------------------------------------------------------ AnalysisPage
\* useState initialiser of loading
LoadingInitial(w) ==
  LET ad == w.ctx.analysisData
  IN IF w.locState THEN TRUE
     ELSE IF ad.some /\ ad.sourceType = "upload" /\ ad.sessionId # 0 THEN FALSE
     ELSE ~ad.some \/ ad.sessionId = 0

\* x || y on the backend-made values (0 is the empty one)
OrElse(x, y) == IF x # 0 THEN x ELSE y

UploadCompanyInfo(companyName, docTitle, docType) ==
  [some |-> TRUE, ticker |-> "",
   companyName |-> IF companyName # "" THEN companyName ELSE "Unknown Company",
   filing |-> NullFiling, docTitle |-> docTitle,
   docType |-> IF docType # "" THEN docType ELSE "Local Upload"]

\* startAnalysis, upload branch, from the chat-history refresh to its return.
\* alive: the AnalysisPage that runs it is still mounted.
UploadResumeRest(w, alive, sid, isFreshUpload, chatEmpty) ==
  LET w1 == IF ~isFreshUpload /\ chatEmpty
              THEN Fetch(w, [NewReq("history", "startAnalysis.refresh", "/analysis")
                               EXCEPT !.sid = sid, !.alive = alive])
              ELSE w
  IN IF ~alive THEN w1
     ELSE IF isFreshUpload THEN [w1 EXCEPT !.ap.timer = TRUE]
     ELSE [w1 EXCEPT !.ap.loading = FALSE]

\* startAnalysis, upload branch (analysisData is an upload session)
UploadResume(w) ==
  LET ad == w.ctx.analysisData
      uad == w.ctx.uploadAnalysisData
      um == w.ctx.uploadMetadata
      w1 == IF uad.some /\ uad.sessionId # 0
              THEN [w EXCEPT !.ap.sessionId = uad.sessionId,
                       !.ap.executiveSummary =
                          OrElse(uad.executiveSummary, ad.executiveSummary),
                       !.ap.newsArticles = OrElse(uad.newsArticles, ad.newsArticles),
                       !.ap.chatMessages = ad.chatMessages]
              ELSE [w EXCEPT !.ap.sessionId = ad.sessionId,
                       !.ap.executiveSummary = ad.executiveSummary,
                       !.ap.newsArticles = ad.newsArticles,
                       !.ap.chatMessages = ad.chatMessages]
  IN IF um.some /\ um.companyName # ""
       THEN UploadResumeRest(
              [w1 EXCEPT !.ap.companyInfo =
                 UploadCompanyInfo(um.companyName, um.docTitle, um.docType)],
              TRUE, ad.sessionId, w.locState, ad.chatMessages = << >>)
       ELSE Fetch(w1, [NewReq("history", "startAnalysis.metadata", "/analysis")
                         EXCEPT !.sid = ad.sessionId, !.flag = w.locState,
                                !.flag2 = (ad.chatMessages = << >>)])

\* startAnalysis, "upload workflow data but no analysis data yet".
\* location.state never carries a sessionId (the only navigate with a state
\* passes {isUpload: true}), so that sub-branch falls through to the error.
UploadRecover(w) ==
  LET uad == w.ctx.uploadAnalysisData
      um == w.ctx.uploadMetadata
  IN IF uad.some /\ uad.sessionId # 0
       THEN setAnalysisData(
              [w EXCEPT !.ap.loading = TRUE, !.ap.sessionId = uad.sessionId,
                 !.ap.executiveSummary = uad.executiveSummary,
                 !.ap.newsArticles = uad.newsArticles,
                 !.ap.companyInfo =
                    UploadCompanyInfo(um.companyName, um.docTitle, um.docType),
                 !.ap.timer = TRUE],
              [some |-> TRUE, sessionId |-> uad.sessionId,
               executiveSummary |-> uad.executiveSummary,
               newsArticles |-> uad.newsArticles, chatMessages |-> << >>,
               sourceType |-> "upload"])
       ELSE [w EXCEPT !.ap.error = "Analysis data not found", !.ap.loading = FALSE]

SecCompanyInfo(swd) ==
  [some |-> TRUE, ticker |-> swd.ticker, companyName |-> swd.company_name,
   filing |-> swd.selected_filing, docTitle |-> "", docType |-> ""]

\* startAnalysis, SEC branch
SecStart(w) ==
  LET ad == w.ctx.analysisData
      sm == w.ctx.selectionMetadata
      swd == w.ctx.secWorkflowData
      create(v) ==
        Fetch([v EXCEPT !.ap.loading = TRUE, !.ap.error = ""],
              [NewReq("start-analysis", "startAnalysis", "/analysis")
                 EXCEPT !.sel = Selection(swd.ticker, swd.selected_filing)])
  IN IF ~swd.some \/ swd.selected_filing = NullFiling
       THEN [w EXCEPT !.ap.error = "Missing workflow data", !.ap.loading = FALSE]
     ELSE IF ad.some /\ sm.some
       THEN IF /\ ad.sessionId # 0
               /\ sm.ticker = swd.ticker
               /\ swd.selected_filing.accession_number = sm.selected_filing.accession_number
              THEN [w EXCEPT !.ap.sessionId = ad.sessionId,
                      !.ap.executiveSummary = ad.executiveSummary,
                      !.ap.newsArticles = ad.newsArticles,
                      !.ap.chatMessages = ad.chatMessages,
                      !.ap.companyInfo = SecCompanyInfo(swd),
                      !.ap.loading = FALSE]
              ELSE create(setAnalysisData(w, NullAnalysis))
     ELSE create(w)

\* The body of the "Start analysis on mount" effect, to its first await
startAnalysis(w) ==
  LET ad == w.ctx.analysisData
      swd == w.ctx.secWorkflowData
      um == w.ctx.uploadMetadata
      isUploadSourceType == ad.some /\ ad.sourceType = "upload"
      isUploadWorkflow == isUploadSourceType /\ ad.sessionId # 0 /\ ~swd.some
  IN IF isUploadWorkflow THEN UploadResume(w)
     ELSE IF ~swd.some /\ um.some /\ (~ad.some \/ ad.sessionId = 0)
       THEN UploadRecover(w)
     ELSE SecStart(w)

StartDeps == {"secWorkflowData", "analysisData", "selectionMetadata", "uploadMetadata"}

\* ----------------------------------------------------------- SECSearchPage
handleFetchFilingsForCompany(w, ticker, restoreFiling) ==
  IF ticker = "" THEN w
  ELSE Fetch([w EXCEPT !.sec.loadingFilings = TRUE],
             [NewReq("get-filings", "handleFetchFilingsForCompany", "/company")
                EXCEPT !.sel = Selection(ticker, restoreFiling)])

\* ---------------------------------------------------------- ChatDetailPage
\* the effect on [sessionId], to its await
fetchChatDetails(w) ==
  IF w.cdp.sessionId = 0 THEN [w EXCEPT !.cdp.loading = FALSE]
  ELSE Fetch([w EXCEPT !.cdp.loading = TRUE, !.cdp.error = ""],
             [NewReq("chat-details", "fetchChatDetails", "/history/chat")
                EXCEPT !.sid = w.cdp.sessionId])

\* "Restore selections from WorkflowContext on mount" effect
RestoreFromContext(w) ==
  LET swd == w.ctx.secWorkflowData
  IN IF ~w.sec.hasRestoredFromContext /\ swd.some
       THEN IF swd.company_name # "" /\ swd.ticker # ""
              THEN handleFetchFilingsForCompany(
                     [w EXCEPT !.sec.hasRestoredFromContext = TRUE,
                               !.sec.selectedCompany = swd.ticker],
                     swd.ticker, swd.selected_filing)
              ELSE [w EXCEPT !.sec.hasRestoredFromContext = TRUE]
       ELSE w

\* -------------------------------------------------------------- UploadPage
HasActiveAnalysis(c) == c.uploadAnalysisData.some /\ c.uploadAnalysisData.sessionId # 0
IsUploadWorkflow(c) == c.analysisData.some /\ c.analysisData.sourceType = "upload"

\* "Clear metadata when component mounts if there's no active analysis"
ClearOnMount(w) ==
  IF ~HasActiveAnalysis(w.ctx) \/ ~IsUploadWorkflow(w.ctx)
    THEN LET w1 == setSelectedUploadFile(setUploadMetadata(w, NullMetadata), NullFile)
         IN [w1 EXCEPT !.up.submittedMetadata = NullMetadata,
                       !.up.submittedFileName = << >>]
    ELSE w

\* "Store submitted metadata when analysis is created" effect; it depends on
\* every value it reads or writes, so it has run to its fixed point whenever
\* the page is at rest.
StoreSubmitted(w) ==
  LET uad == w.ctx.uploadAnalysisData
      um == w.ctx.uploadMetadata
  IN IF HasActiveAnalysis(w.ctx) /\ IsUploadWorkflow(w.ctx)
       THEN IF uad.submittedMetadata.some
              THEN [w EXCEPT !.up.submittedMetadata = uad.submittedMetadata,
                             !.up.submittedFileName = uad.submittedFileName]
            ELSE IF um.some /\ ~w.up.submittedMetadata.some
              THEN [w EXCEPT !.up.submittedMetadata = um,
                             !.up.submittedFileName = w.ctx.selectedUploadFile.name]
            ELSE w
       ELSE [w EXCEPT !.up.submittedMetadata = NullMetadata,
                      !.up.submittedFileName = << >>]

\* ------------------------------------------------------- render and effects
\* One round of the effects of the page on screen.  mounted: the page was
\* mounted in this round; otherwise an effect runs when a dependency changed
\* between old and w.  The result's dirty holds what the effects assigned.
Round(old, w, mounted) ==
  LET w0 == [w EXCEPT !.dirty = {}]
  IN CASE w.route = "/analysis" ->
            IF mounted \/ ChangedAny(old, w, StartDeps) THEN startAnalysis(w0) ELSE w0
       [] w.route = "/upload" ->
            StoreSubmitted(IF mounted THEN ClearOnMount(w0) ELSE w0)
       [] w.route = "/company" ->
            IF mounted \/ Changed(old, w, "secWorkflowData")
              THEN RestoreFromContext(w0) ELSE w0
       [] w.route = "/history/chat" ->
            IF mounted THEN fetchChatDetails(w0) ELSE w0
       [] OTHER -> w0

\* A page mounts with its useState initialisers evaluated on the provider
\* values of that render
Mount(w) ==
  IF w.route = "/analysis" THEN [w EXCEPT !.ap.loading = LoadingInitial(w)] ELSE w

\* What a step leaves behind: the handler's batched updates are rendered, the
\* page's effects run (children before the provider), their updates are
\* rendered and the effects run once more, then the provider's save effects
\* have seen every value assigned in the step.
Flush(old, w) ==
  LET mounted == old.route # w.route
      r1 == Round(old, IF mounted THEN Mount(w) ELSE w, mounted)
      r2 == Round(w, r1, FALSE)
  IN ProviderEffects(old, [r2 EXCEPT !.dirty = w.dirty \cup r1.dirty \cup r2.dirty])

Step(w) == Commit(Flush(World, w))

\* ------------------------------------------------------ SECSearchPage events
\* The dialogs are full-screen overlays: the page under them takes no clicks.
SecPageOpen ==
  route = "/company" /\ ~sec.showConflictDialog /\ ~sec.showBackWarningDialog

\* the button's check comparing the filings member by member
hasAnalysisForSameListing(w) ==
  LET ad == w.ctx.analysisData
      sm == w.ctx.selectionMetadata
  IN IF ~ad.some \/ ~sm.some \/ w.sec.selectedFiling = NullFiling THEN FALSE
     ELSE /\ w.sec.selectedCompany = sm.ticker
          /\ w.sec.selectedFiling = sm.selected_filing

hasAnalysisForCurrentSelection(w) ==
  LET ad == w.ctx.analysisData
      sm == w.ctx.selectionMetadata
  IN IF ~ad.some \/ ~sm.some \/ w.sec.selectedFiling = NullFiling THEN FALSE
     ELSE /\ w.sec.selectedCompany = sm.ticker
          /\ w.sec.selectedFiling.accession_number = sm.selected_filing.accession_number

\* proceedWithNewAnalysis from "Clear old data" to its end.  sel is the
\* selection of the render that started it, alive whether SECSearchPage is
\* still mounted.
ProceedClearAndStart(w, alive, sel) ==
  LET w1 == updateSecWorkflowData(setAnalysisData(w, NullAnalysis), NullSelection)
      w2 == updateSecWorkflowData(removeItem(w1, "active"), sel)
      w3 == IF alive THEN [w2 EXCEPT !.sec.showConflictDialog = FALSE] ELSE w2
  IN navigate(w3, "/analysis", FALSE)

proceedWithNewAnalysis(w) ==
  LET sel == Selection(w.sec.selectedCompany, w.sec.selectedFiling)
  IN IF w.sec.selectedCompany = "" \/ w.sec.selectedFiling = NullFiling THEN w
     ELSE IF w.ctx.analysisData.sessionId # 0
       THEN Fetch(w, [NewReq("end-session", "proceedWithNewAnalysis", "/company")
                        EXCEPT !.sid = w.ctx.analysisData.sessionId, !.sel = sel])
     ELSE ProceedClearAndStart(w, TRUE, sel)

handleStartAnalysis(w) ==
  LET ad == w.ctx.analysisData
      sm == w.ctx.selectionMetadata
  IN IF w.sec.selectedCompany = "" \/ w.sec.selectedFiling = NullFiling THEN w
     ELSE IF /\ ad.some /\ sm.some
             /\ (sm.ticker # w.sec.selectedCompany
                   \/ sm.selected_filing.accession_number
                        # w.sec.selectedFiling.accession_number)
       THEN [w EXCEPT !.sec.showConflictDialog = TRUE]
     ELSE proceedWithNewAnalysis(w)

\* handleBackConfirm from "User confirmed - clear everything" to its end
BackConfirmClear(w, alive) ==
  LET w1 == IF alive
              THEN [w EXCEPT !.sec.selectedCompany = "", !.sec.filingsLoaded = FALSE,
                             !.sec.selectedFiling = NullFiling]
              ELSE w
      w2 == setAnalysisData(updateSecWorkflowData(w1, NullSelection), NullAnalysis)
      w3 == removeItem(w2, "active")
      w4 == IF alive THEN [w3 EXCEPT !.sec.showBackWarningDialog = FALSE] ELSE w3
  IN navigate(w4, "/", FALSE)

handleBackConfirm(w) ==
  IF w.ctx.analysisData.sessionId # 0
    THEN Fetch(w, [NewReq("end-session", "handleBackConfirm", "/company")
                     EXCEPT !.sid = w.ctx.analysisData.sessionId])
    ELSE BackConfirmClear(w, TRUE)

Backend == UNCHANGED <<sessions, chatSends>>

CompanySelect ==
  /\ SecPageOpen /\ sec.selectedCompany = ""
  /\ \E t \in Tickers : Step([World EXCEPT !.sec.selectedCompany = t])
  /\ Backend

ClearSelection ==
  /\ SecPageOpen /\ sec.selectedCompany # ""
  /\ Step([World EXCEPT !.sec.selectedCompany = "", !.sec.filingsLoaded = FALSE,
                        !.sec.selectedFiling = NullFiling])
  /\ Backend

FetchFilings ==
  /\ SecPageOpen /\ sec.selectedCompany # "" /\ ~sec.loadingFilings
  /\ Step(handleFetchFilingsForCompany(World, sec.selectedCompany, NullFiling))
  /\ Backend

FilingSelect ==
  /\ SecPageOpen /\ sec.filingsLoaded
  /\ \E f \in Filings : Step([World EXCEPT !.sec.selectedFiling = f])
  /\ Backend

\* The one button under the filings list
SecButtonShown == SecPageOpen /\ sec.filingsLoaded /\ sec.selectedFiling # NullFiling

\* the label of that button
secButtonText(w) ==
  IF hasAnalysisForCurrentSelection(w) THEN "Resume Analysis" ELSE "Start Analysis"

SecStartAnalysis ==
  /\ SecButtonShown /\ ~hasAnalysisForCurrentSelection(World)
  /\ Step(handleStartAnalysis(World))
  /\ Backend

SecResumeAnalysis ==
  /\ SecButtonShown /\ hasAnalysisForCurrentSelection(World)
  /\ Step(navigate(World, "/analysis", FALSE))
  /\ Backend

ConflictStartNew ==
  /\ route = "/company" /\ sec.showConflictDialog /\ ~sec.showBackWarningDialog
  /\ Step(proceedWithNewAnalysis(World))
  /\ Backend

ConflictResumeExisting ==
  /\ route = "/company" /\ sec.showConflictDialog /\ ~sec.showBackWarningDialog
  /\ Step(navigate([World EXCEPT !.sec.showConflictDialog = FALSE], "/analysis", FALSE))
  /\ Backend

SecBackClick ==
  /\ SecPageOpen
  /\ LET hasActiveSession ==
           \/ sec.selectedCompany # "" \/ sec.selectedFiling # NullFiling
           \/ ctx.analysisData.some \/ ctx.secWorkflowData.some
           \/ ctx.selectionMetadata.some
     IN IF hasActiveSession
          THEN Step([World EXCEPT !.sec.showBackWarningDialog = TRUE])
          ELSE Step(navigate(World, "/", FALSE))
  /\ Backend

SecBackConfirm ==
  /\ route = "/company" /\ sec.showBackWarningDialog
  /\ Step(handleBackConfirm(World))
  /\ Backend

\* a Cancel that also drops the pending selection
SecBackCancelDropsSelection ==
  /\ route = "/company" /\ sec.showBackWarningDialog
  /\ Step(updateSecWorkflowData([World EXCEPT !.sec.showBackWarningDialog = FALSE],
                                NullSelection))
  /\ Backend

SecBackCancel ==
  /\ route = "/company" /\ sec.showBackWarningDialog
  /\ Step([World EXCEPT !.sec.showBackWarningDialog = FALSE])
  /\ Backend

\* -------------------------------------------------------- UploadPage events
UploadPageOpen ==
  /\ route = "/upload" /\ ~up.isLoading
  /\ ~up.showReplaceModal /\ ~up.showBackWarningModal

\* String.prototype.trim on the form's strings: of the strings the inputs
\* range over only the blank one has surrounding whitespace
trim(str) == IF str = " " THEN "" ELSE str

toLowerCase(name) ==
  [i \in DOMAIN name |->
     CASE name[i] = "P" -> "p" [] name[i] = "D" -> "d" [] name[i] = "F" -> "f"
       [] name[i] = "T" -> "t" [] name[i] = "X" -> "x" [] OTHER -> name[i]]

\* fileName.lastIndexOf('.'), 1-based; 0 when there is no dot
lastIndexOfDot(name) ==
  LET dots == {i \in DOMAIN name : name[i] = "."}
  IN IF dots = {} THEN 0 ELSE CHOOSE i \in dots : \A j \in dots : j <= i

\* fileName.substring(fileName.lastIndexOf('.')): substring(-1) is the whole name
fileExtension(name) ==
  LET from == IF lastIndexOfDot(name) = 0 THEN 1 ELSE lastIndexOfDot(name)
  IN SubSeq(name, from, Len(name))

allowedExtensions == {<<".", "p", "d", "f">>, <<".", "t", "x", "t">>}
maxSize == 10 * 1024 * 1024

\* handleFileSelect without the size check
handleFileSelectAnySize(w, file) ==
  IF ~file.some THEN w
  ELSE IF fileExtension(toLowerCase(file.name)) \notin allowedExtensions
    THEN setSelectedUploadFile([w EXCEPT !.up.fileError = TRUE], NullFile)
  ELSE setSelectedUploadFile([w EXCEPT !.up.fileError = FALSE], file)

handleFileSelect(w, file) ==
  IF ~file.some THEN w
  ELSE IF fileExtension(toLowerCase(file.name)) \notin allowedExtensions
    THEN setSelectedUploadFile([w EXCEPT !.up.fileError = TRUE], NullFile)
  ELSE IF file.size > maxSize
    THEN setSelectedUploadFile([w EXCEPT !.up.fileError = TRUE], NullFile)
  ELSE setSelectedUploadFile([w EXCEPT !.up.fileError = FALSE], file)

handleInputChange(w, field, value) ==
  setUploadMetadata(w, [w.ctx.uploadMetadata EXCEPT !.some = TRUE, ![field] = value])

isDirty(w) ==
  LET um == w.ctx.uploadMetadata
      sub == w.up.submittedMetadata
  IN IF ~HasActiveAnalysis(w.ctx) \/ ~IsUploadWorkflow(w.ctx) THEN FALSE
     ELSE IF ~sub.some THEN FALSE
     ELSE LET metadataMatches ==
                /\ trim(um.companyName) = trim(sub.companyName)
                /\ trim(um.docTitle) = trim(sub.docTitle)
                /\ trim(um.docType) = trim(sub.docType)
                /\ um.year = sub.year
              fileNameMatches == w.ctx.selectedUploadFile.name = w.up.submittedFileName
          IN ~(metadataMatches /\ fileNameMatches)

buttonText(w) ==
  IF HasActiveAnalysis(w.ctx)
    THEN IF isDirty(w) THEN "Start New Analysis" ELSE "Resume Analysis"
    ELSE "Start Analysis"

\* a start that sends the form whatever the company name is
uploadStartUnvalidated(w, c) ==
  IF ~c.selectedUploadFile.some THEN [w EXCEPT !.up.fileError = TRUE]
  ELSE Fetch(SetCtx([w EXCEPT !.up.isLoading = TRUE], "analysisLoading", TRUE),
             [NewReq("upload-analysis", "handleStartAnalysis", "/upload")
                EXCEPT !.meta = c.uploadMetadata,
                       !.fileName = c.selectedUploadFile.name,
                       !.fileSize = c.selectedUploadFile.size])

\* UploadPage.handleStartAnalysis to its await; c holds the provider values
\* of the render whose handler runs (its closure)
uploadStartAnalysis(w, c) ==
  IF ~c.selectedUploadFile.some THEN [w EXCEPT !.up.fileError = TRUE]
  ELSE IF trim(c.uploadMetadata.companyName) = ""
    THEN [w EXCEPT !.alert = "Please enter a company name."]
  ELSE Fetch(SetCtx([w EXCEPT !.up.isLoading = TRUE], "analysisLoading", TRUE),
             [NewReq("upload-analysis", "handleStartAnalysis", "/upload")
                EXCEPT !.meta = c.uploadMetadata,
                       !.fileName = c.selectedUploadFile.name,
                       !.fileSize = c.selectedUploadFile.size])

handleProceedWithNew(w) ==
  LET w1 == setSelectedUploadFile(setUploadAnalysisData(w, NullUploadAnalysis), NullFile)
      w2 == removeItem(w1, "uploadData")
      w3 == IF IsUploadWorkflow(w.ctx) THEN setAnalysisData(w2, NullAnalysis) ELSE w2
      w4 == [w3 EXCEPT !.up.submittedMetadata = NullMetadata,
                       !.up.submittedFileName = << >>,
                       !.up.showReplaceModal = FALSE]
  IN uploadStartAnalysis(w4, w.ctx)

handleBackProceed(w) ==
  LET w1 == setSelectedUploadFile(
              setUploadMetadata(setUploadAnalysisData(w, NullUploadAnalysis),
                                NullMetadata),
              NullFile)
      w2 == removeItem(removeItem(w1, "uploadData"), "uploadMeta")
      w3 == IF IsUploadWorkflow(w.ctx) THEN setAnalysisData(w2, NullAnalysis) ELSE w2
  IN navigate([w3 EXCEPT !.up.showBackWarningModal = FALSE], "/", FALSE)

handleButtonClick(w) ==
  IF buttonText(w) = "Resume Analysis" THEN navigate(w, "/analysis", FALSE)
  ELSE IF buttonText(w) = "Start New Analysis"
    THEN [w EXCEPT !.up.showReplaceModal = TRUE]
  ELSE uploadStartAnalysis(w, w.ctx)

InputChange ==
  /\ UploadPageOpen
  /\ \E field \in DOMAIN FieldInputs : \E value \in FieldInputs[field] :
       Step(handleInputChange(World, field, value))
  /\ Backend

FileSelect ==
  /\ UploadPageOpen /\ ~ctx.selectedUploadFile.some
  /\ \E name \in FileNames : \E size \in FileSizes :
       Step(handleFileSelect(World, [some |-> TRUE, name |-> name, size |-> size]))
  /\ Backend

\* handleDrop / handleFileInputChange with whatever the user picks
DropFile ==
  /\ UploadPageOpen /\ ~ctx.selectedUploadFile.some
  /\ \E name \in DroppedNames : \E size \in DroppedSizes :
       Step(handleFileSelect(World, [some |-> TRUE, name |-> name, size |-> size]))
  /\ Backend

\* handleFileSelect for a revision of a document, chosen under the old name
RevisedFileSelect ==
  /\ UploadPageOpen /\ ~ctx.selectedUploadFile.some
  /\ \E name \in FileNames : \E size \in RevisedSizes :
       Step(handleFileSelect(World, [some |-> TRUE, name |-> name, size |-> size]))
  /\ Backend

RemoveFile ==
  /\ UploadPageOpen /\ ctx.selectedUploadFile.some
  /\ Step(setSelectedUploadFile([World EXCEPT !.up.fileError = FALSE], NullFile))
  /\ Backend

UploadButtonClick ==
  /\ UploadPageOpen
  /\ Step(handleButtonClick(World))
  /\ Backend

ReplaceProceed ==
  /\ route = "/upload" /\ ~up.isLoading /\ up.showReplaceModal
  /\ Step(handleProceedWithNew(World))
  /\ Backend

ReplaceResumeCurrent ==
  /\ route = "/upload" /\ ~up.isLoading /\ up.showReplaceModal
  /\ Step(navigate([World EXCEPT !.up.showReplaceModal = FALSE], "/analysis", FALSE))
  /\ Backend

ReplaceClose ==
  /\ route = "/upload" /\ ~up.isLoading /\ up.showReplaceModal
  /\ Step([World EXCEPT !.up.showReplaceModal = FALSE])
  /\ Backend

UploadBackClick ==
  /\ UploadPageOpen
  /\ LET um == ctx.uploadMetadata
         hasActiveSession ==
           \/ HasActiveAnalysis(ctx)
           \/ (um.some /\ (um.companyName # "" \/ um.docTitle # ""
                             \/ um.docType # "" \/ um.year # ""))
           \/ ctx.selectedUploadFile.some
     IN IF hasActiveSession
          THEN Step([World EXCEPT !.up.showBackWarningModal = TRUE])
          ELSE Step(navigate(World, "/", FALSE))
  /\ Backend

UploadBackCancel ==
  /\ route = "/upload" /\ ~up.isLoading /\ up.showBackWarningModal
  /\ Step([World EXCEPT !.up.showBackWarningModal = FALSE])
  /\ Backend

UploadBackProceed ==
  /\ route = "/upload" /\ ~up.isLoading /\ up.showBackWarningModal
  /\ Step(handleBackProceed(World))
  /\ Backend

\* ------------------------------------------------------ AnalysisPage events
Dashboard == route = "/analysis" /\ ~ap.loading /\ ap.error = ""
ErrorScreen == route = "/analysis" /\ ~ap.loading /\ ap.error # ""

UserMessage == [role |-> "user", isError |-> FALSE]
AssistantMessage == [role |-> "assistant", isError |-> FALSE]
ErrorMessage == [role |-> "assistant", isError |-> TRUE]

\* displayChatMessages: the transcript the dashboard renders.  For an upload
\* session it is analysisData.chatMessages (an array, so always truthy),
\* otherwise the page's own chatMessages.
displayChatMessages ==
  IF IsUploadWorkflow(ctx) THEN ctx.analysisData.chatMessages ELSE ap.chatMessages

\* handleSendMessage to its await (the input holds a non-blank text)
handleSendMessage(w) ==
  IF w.ap.sessionId = 0 \/ w.ap.sendingMessage THEN w
  ELSE Fetch([w EXCEPT !.ap.chatMessages = Append(@, UserMessage),
                       !.ap.sendingMessage = TRUE],
             [NewReq("chat", "handleSendMessage", "/analysis")
                EXCEPT !.sid = w.ap.sessionId])

handleEndSessionClick(w) ==
  IF w.ap.sessionId = 0 THEN w ELSE [w EXCEPT !.ap.showEndSessionDialog = TRUE]

\* handleEndSessionConfirm to its await
handleEndSessionConfirm(w) ==
  IF w.ap.sessionId = 0 THEN w
  ELSE Fetch([w EXCEPT !.ap.endingSession = TRUE],
             [NewReq("end-session", "handleEndSessionConfirm", "/analysis")
                EXCEPT !.sid = w.ap.sessionId, !.flag = IsUploadWorkflow(w.ctx)])

\* The Back button of the dashboard and of the error screen
AnalysisBack ==
  /\ (Dashboard /\ ~ap.showEndSessionDialog) \/ ErrorScreen
  /\ Step(navigate(World, IF ctx.secWorkflowData.some THEN "/company" ELSE "/upload",
                   FALSE))
  /\ Backend

SendMessage ==
  /\ Dashboard /\ ~ap.showEndSessionDialog
  /\ ap.sessionId # 0 /\ ~ap.sendingMessage
  /\ chatSends < MaxChat
  /\ Step(handleSendMessage(World))
  /\ chatSends' = chatSends + 1
  /\ UNCHANGED sessions

EndSessionClick ==
  /\ Dashboard /\ ~ap.showEndSessionDialog
  /\ ap.sessionId # 0 /\ ~ap.endingSession
  /\ Step(handleEndSessionClick(World))
  /\ Backend

EndSessionConfirm ==
  /\ Dashboard /\ ap.showEndSessionDialog /\ ~ap.endingSession
  /\ Step(handleEndSessionConfirm(World))
  /\ Backend

EndSessionCancel ==
  /\ Dashboard /\ ap.showEndSessionDialog /\ ~ap.endingSession
  /\ Step([World EXCEPT !.ap.showEndSessionDialog = FALSE])
  /\ Backend

\* setTimeout(() => setLoading(false), 2000) of a fresh upload
TimerFires ==
  /\ route = "/analysis" /\ ap.timer
  /\ Step([World EXCEPT !.ap.timer = FALSE, !.ap.loading = FALSE])
  /\ Backend

\* ------------------------------------------------------------- navigation
\* The two <Link>s of the landing page
LinkCompany ==
  /\ route = "/"
  /\ Step(navigate(World, "/company", FALSE))
  /\ Backend

LinkUpload ==
  /\ route = "/"
  /\ Step(navigate(World, "/upload", FALSE))
  /\ Backend

\* The browser's back button, to the landing page the history starts with
BrowserBack ==
  /\ route # "/"
  /\ Step(navigate(World, "/", FALSE))
  /\ Backend

\* ------------------------------------------------------ fetch continuations
\* Each runs from the await the fetch r was issued at to the handler's next
\* await or end; r.status is "ok" for a 2xx response and "fail" otherwise.

\* proceedWithNewAnalysis: after the try/catch around end-session
\* ("Continue anyway - don't block the user")
ContinueProceedWithNew(w, r) == ProceedClearAndStart(w, r.alive, r.sel)

\* SECSearchPage.handleBackConfirm: after the try/catch around end-session
ContinueBackConfirm(w, r) == BackConfirmClear(w, r.alive)

ContinueEndSessionConfirm(w, r) ==
  IF r.status = "ok"
    THEN LET w1 == IF r.flag
                     THEN removeItem(
                            removeItem(
                              setUploadMetadata(
                                setUploadAnalysisData(w, NullUploadAnalysis),
                                NullMetadata),
                              "uploadData"),
                            "uploadMeta")
                     ELSE w
             w2 == setAnalysisData(updateSecWorkflowData(w1, NullSelection),
                                   NullAnalysis)
         IN navigate(removeItem(w2, "active"), "/", FALSE)
    ELSE IF r.alive
      THEN [w EXCEPT !.alert = "Failed to end session",
                     !.ap.endingSession = FALSE, !.ap.showEndSessionDialog = FALSE]
      ELSE [w EXCEPT !.alert = "Failed to end session"]

\* startAnalysis after await fetch('/api/start-analysis')
ContinueStartAnalysis(w, r) ==
  IF r.status = "ok"
    THEN LET w1 == IF r.alive
                     THEN [w EXCEPT !.ap.sessionId = r.sid,
                             !.ap.executiveSummary = r.sid,
                             !.ap.companyInfo = SecCompanyInfo(r.sel),
                             !.ap.newsArticles = r.sid,
                             !.ap.loading = FALSE]
                     ELSE w
         IN setAnalysisData(w1, [some |-> TRUE, sessionId |-> r.sid,
                                 executiveSummary |-> r.sid, newsArticles |-> r.sid,
                                 chatMessages |-> << >>, sourceType |-> ""])
    ELSE IF r.alive
      THEN [w EXCEPT !.ap.error = "Failed to start analysis", !.ap.loading = FALSE]
      ELSE w

\* UploadPage.handleStartAnalysis after await fetch('/api/upload-analysis')
ContinueUploadStart(w, r) ==
  LET done(v) == SetCtx(v, "analysisLoading", FALSE)
  IN IF r.status = "ok"
       THEN LET w1 == setUploadAnalysisData(w,
                        [some |-> TRUE, sessionId |-> r.sid,
                         executiveSummary |-> r.sid, newsArticles |-> r.sid,
                         submittedMetadata |-> [r.meta EXCEPT !.some = TRUE],
                         submittedFileName |-> r.fileName])
                w2 == setAnalysisData(w1,
                        [some |-> TRUE, sessionId |-> r.sid,
                         executiveSummary |-> r.sid, newsArticles |-> r.sid,
                         chatMessages |-> << >>, sourceType |-> "upload"])
            IN done(navigate(w2, "/analysis", TRUE))
       ELSE done(IF r.alive THEN [w EXCEPT !.up.isLoading = FALSE] ELSE w)

\* handleSendMessage whose catch leaves sendingMessage set
ContinueSendMessageKeepsLatch(w, r) ==
  IF ~r.alive
    THEN IF r.status = "ok" /\ r.eager /\ w.ctx.analysisData.some
           THEN setAnalysisData(w, [w.ctx.analysisData EXCEPT
                                      !.chatMessages = Append(r.msgs, AssistantMessage)])
           ELSE w
  ELSE IF r.status = "ok"
    THEN LET updated == Append(w.ap.chatMessages, AssistantMessage)
             w1 == [w EXCEPT !.ap.chatMessages = updated, !.ap.sendingMessage = FALSE]
         IN IF w.ctx.analysisData.some
              THEN setAnalysisData(w1, [w.ctx.analysisData EXCEPT !.chatMessages = updated])
              ELSE w1
    ELSE [w EXCEPT !.ap.chatMessages = Append(@, ErrorMessage)]

\* handleSendMessage after await fetch('/api/chat').  On an unmounted page
\* setChatMessages(prev => ...) renders nothing; whether React still calls
\* the updater (eagerly, on the last rendered transcript) depends on the
\* lanes left on the detached fiber, so both outcomes are possible: called,
\* the setAnalysisData inside it takes effect.
ContinueSendMessage(w, r) ==
  IF ~r.alive
    THEN IF r.status = "ok" /\ r.eager /\ w.ctx.analysisData.some
           THEN setAnalysisData(w, [w.ctx.analysisData EXCEPT
                                      !.chatMessages = Append(r.msgs, AssistantMessage)])
           ELSE w
  ELSE IF r.status = "ok"
    THEN LET updated == Append(w.ap.chatMessages, AssistantMessage)
             w1 == [w EXCEPT !.ap.chatMessages = updated, !.ap.sendingMessage = FALSE]
         IN IF w.ctx.analysisData.some
              THEN setAnalysisData(w1, [w.ctx.analysisData EXCEPT !.chatMessages = updated])
              ELSE w1
    ELSE [w EXCEPT !.ap.chatMessages = Append(@, ErrorMessage),
                   !.ap.sendingMessage = FALSE]

\* startAnalysis, upload branch, after the awaited metadata fetch
ContinueMetadata(w, r) ==
  LET info == IF r.status = "ok"
                THEN UploadCompanyInfo(r.meta.companyName, r.meta.docTitle, r.meta.docType)
                ELSE UploadCompanyInfo("", "", "")
      w1 == IF r.alive THEN [w EXCEPT !.ap.companyInfo = info] ELSE w
  IN UploadResumeRest(w1, r.alive, r.sid, r.flag, r.flag2)

\* ContinueRefresh without the length check: the fetched list replaces the
\* transcript also when it is empty or the fetch failed
ContinueRefreshOverwrites(w, r) ==
  LET w1 == IF r.alive THEN [w EXCEPT !.ap.chatMessages = r.msgs] ELSE w
  IN IF w.ctx.analysisData.some
       THEN setAnalysisData(w1, [w.ctx.analysisData EXCEPT !.chatMessages = r.msgs])
       ELSE w1

\* The .then chain of the non-blocking chat-history fetch
ContinueRefresh(w, r) ==
  IF r.status = "ok" /\ r.msgs # << >>
    THEN LET w1 == IF r.alive THEN [w EXCEPT !.ap.chatMessages = r.msgs] ELSE w
         IN IF w.ctx.analysisData.some
              THEN setAnalysisData(w1, [w.ctx.analysisData EXCEPT !.chatMessages = r.msgs])
              ELSE w1
    ELSE w

\* the listed filing with restoreFiling's accession number, restoreFiling
\* itself when the list has none
Restored(restoreFiling) ==
  LET found == {f \in Filings : f.accession_number = restoreFiling.accession_number}
  IN IF found # {} THEN CHOOSE f \in found : TRUE ELSE restoreFiling

\* handleFetchFilingsForCompany after await fetch('/api/get-filings')
ContinueFetchFilings(w, r) ==
  IF ~r.alive
    THEN IF r.status = "ok" THEN w ELSE [w EXCEPT !.alert = "Failed to fetch filings"]
  ELSE IF r.status = "ok"
    THEN [w EXCEPT !.sec.filingsLoaded = TRUE,
                   !.sec.selectedFiling =
                      IF r.sel.selected_filing # NullFiling
                        THEN Restored(r.sel.selected_filing) ELSE @,
                   !.sec.loadingFilings = FALSE]
    ELSE [w EXCEPT !.alert = "Failed to fetch filings", !.sec.loadingFilings = FALSE]

Continue(w, r) ==
  CASE r.handler = "proceedWithNewAnalysis" -> ContinueProceedWithNew(w, r)
    [] r.handler = "handleBackConfirm" -> ContinueBackConfirm(w, r)
    [] r.handler = "handleEndSessionConfirm" -> ContinueEndSessionConfirm(w, r)
    [] r.handler = "startAnalysis" -> ContinueStartAnalysis(w, r)
    [] r.handler = "handleStartAnalysis" -> ContinueUploadStart(w, r)
    [] r.handler = "handleSendMessage" -> ContinueSendMessage(w, r)
    [] r.handler = "startAnalysis.metadata" -> ContinueMetadata(w, r)
    [] r.handler = "startAnalysis.refresh" -> ContinueRefresh(w, r)
    [] r.handler = "handleFetchFilingsForCompany" -> ContinueFetchFilings(w, r)

\* ----------------------------------------------------------------- gateway
\* The backend behind /api: what a request does to the sessions it keeps and
\* what the response carries.  A session is created live and is ended by a
\* successful end-session; its conversation stays readable afterwards.
NewSession(workflowType, r) ==
  [workflowType |-> workflowType, sel |-> r.sel, meta |-> r.meta,
   fileSize |-> r.fileSize,
   live |-> TRUE, messages |-> << >>]

IsCreate(r) == r.kind \in {"start-analysis", "upload-analysis"}

\* a 2xx response to r is possible
CanSucceed(r) ==
  CASE IsCreate(r) -> Len(sessions) < MaxSessions
    [] r.kind = "end-session" -> r.sid \in DOMAIN sessions
    [] r.kind = "chat" -> r.sid \in DOMAIN sessions /\ sessions[r.sid].live
    [] r.kind = "history" -> r.sid \in DOMAIN sessions
    [] OTHER -> TRUE

\* the sessions after the backend served r with a 2xx
Served(r) ==
  CASE r.kind = "start-analysis" -> Append(sessions, NewSession("sec", r))
    [] r.kind = "upload-analysis" -> Append(sessions, NewSession("upload", r))
    [] r.kind = "end-session" -> [sessions EXCEPT ![r.sid].live = FALSE]
    [] r.kind = "chat" ->
         [sessions EXCEPT ![r.sid].messages = @ \o <<UserMessage, AssistantMessage>>]
    [] OTHER -> sessions

\* r as its continuation sees it once the response is in
Answered(r, ok) ==
  IF ~ok THEN [r EXCEPT !.status = "fail"]
  ELSE CASE IsCreate(r) -> [r EXCEPT !.status = "ok", !.sid = Len(sessions) + 1]
         [] r.kind = "history" ->
              [r EXCEPT !.status = "ok", !.meta = sessions[r.sid].meta,
                        !.msgs = sessions[r.sid].messages]
         [] OTHER -> [r EXCEPT !.status = "ok"]

RemoveAt(seq, i) == SubSeq(seq, 1, i - 1) \o SubSeq(seq, i + 1, Len(seq))

\* The response to the i-th pending fetch arrives and its continuation runs
Respond(i, ok) ==
  LET r == Answered(inflight[i], ok)
      updaterCalled == IF r.kind = "chat" /\ ~r.alive /\ ok THEN BOOLEAN ELSE {FALSE}
  IN /\ ok => CanSucceed(inflight[i])
     /\ sessions' = IF ok THEN Served(inflight[i]) ELSE sessions
     /\ \E eager \in updaterCalled :
          Step(Continue([World EXCEPT !.inflight = RemoveAt(@, i)],
                        [r EXCEPT !.eager = eager]))
     /\ UNCHANGED chatSends

ResponseOk == \E i \in DOMAIN inflight : Respond(i, TRUE)
ResponseFail == \E i \in DOMAIN inflight : Respond(i, FALSE)

\* ------------------------------------------------------------------ reload
\* an initialiser without the catch's null: text that does not parse leaves
\* an object with no members
FromStorageKeepsDamaged(item, null) ==
  IF item = Absent THEN null
  ELSE IF ParseOk(item) THEN JSONparse(item) ELSE [null EXCEPT !.some = TRUE]

\* useState initialisers of uploadMetadata and uploadAnalysisData
FromStorage(item, null) == IF ParseOk(item) THEN JSONparse(item) ELSE null

\* "Load active session from localStorage on initialization": the call
\* setSecWorkflowData(parsed.secWorkflowData) names no binding of the module
\* (the state setter is setSecWorkflowDataState), so it throws into the
\* catch; the two assignments before it stand, secWorkflowData stays null.
LoadActiveSession(w, item) ==
  IF ~ParseOk(item) THEN w
  ELSE LET parsed == JSONparse(item)
           w1 == IF parsed.analysisData.some
                   THEN setAnalysisData(w, parsed.analysisData) ELSE w
       IN IF parsed.selectionMetadata.some
            THEN SetCtx(w1, "selectionMetadata", parsed.selectionMetadata) ELSE w1

\* App's mount effect: a parsed finscope_active_session that carries an
\* uploadMetadata member is written back without it; a parse failure is
\* caught. (upload_session and upload_metadata are keys nothing else uses.)
AppCleanup(w) ==
  IF ParseOk(w.ls.active) /\ "uploadMetadata" \in DOMAIN JSONparse(w.ls.active)
    THEN LET parsed == JSONparse(w.ls.active)
         IN [w EXCEPT !.ls.active =
               JSONstringify([f \in DOMAIN parsed \ {"uploadMetadata"} |-> parsed[f]])]
    ELSE w

\* The page is loaded anew on the current history entry with localStorage
\* holding store: every component mounts on the initial provider state, the
\* mount effects run children first (page, then the provider's load and two
\* save effects, then App's cleanup), and the values they assigned are
\* rendered with the effects that depend on them.
ReloadedFrom(store) ==
  LET c0 == [InitCtx EXCEPT
               !.uploadMetadata = FromStorage(store.uploadMeta, NullMetadata),
               !.uploadAnalysisData = FromStorage(store.uploadData, NullUploadAnalysis)]
      w0 == [ctx |-> c0, ls |-> store, sec |-> InitSec, up |-> InitUp, ap |-> InitAp,
             lp |-> InitLp, cdp |-> InitCdp,
             route |-> route, locState |-> locState, inflight |-> << >>,
             dirty |-> {}, alert |-> "", thrown |-> ""]
      r1 == Round(w0, Mount(w0), TRUE)
      l1 == LoadActiveSession(r1, store.active)
      saved == AppCleanup(SaveUploadData(SaveActiveSession(w0)))
      l2 == [l1 EXCEPT !.ls = saved.ls]
      r2 == Round(w0, l2, FALSE)
  IN ProviderEffects(w0, [r2 EXCEPT !.dirty = l2.dirty \cup r2.dirty])

Reloaded == ReloadedFrom(ls)

Reload ==
  /\ Commit(Reloaded)
  /\ Backend

\* ------------------------------------------- LandingPage: recent chats
\* the mount effect, to its await
fetchHistory(w) ==
  Fetch([w EXCEPT !.lp.loading = TRUE, !.lp.error = ""],
        NewReq("history-recent", "fetchHistory", "/"))

\* fetchHistory after the await; data: the list the gateway returned
ContinueFetchHistory(w, r, data) ==
  IF ~r.alive THEN w
  ELSE IF r.status = "ok"
    THEN [w EXCEPT !.lp.history = data, !.lp.loading = FALSE]
    ELSE [w EXCEPT !.lp.error = "HTTP error", !.lp.loading = FALSE]

handleDeleteClick(w, sessionId) ==
  [w EXCEPT !.lp.sessionToDelete = sessionId, !.lp.showDeleteDialog = TRUE]

handleDeleteCancel(w) ==
  [w EXCEPT !.lp.showDeleteDialog = FALSE, !.lp.sessionToDelete = 0]

\* handleDeleteConfirm to its await
handleDeleteConfirm(w) ==
  IF w.lp.sessionToDelete = 0 THEN w
  ELSE Fetch([w EXCEPT !.lp.deletingId = w.lp.sessionToDelete],
             [NewReq("delete-chat", "handleDeleteConfirm", "/")
                EXCEPT !.sid = w.lp.sessionToDelete])

\* handleDeleteConfirm that removes the first entry of the session only
ContinueDeleteConfirmFirstOnly(w, r) ==
  LET first == {i \in DOMAIN w.lp.history : w.lp.history[i] = r.sid}
      at == CHOOSE i \in first : \A j \in first : i <= j
  IN IF r.status = "ok"
       THEN IF r.alive
              THEN [w EXCEPT !.lp.history = IF first = {} THEN @ ELSE RemoveAt(@, at),
                             !.lp.showDeleteDialog = FALSE,
                             !.lp.sessionToDelete = 0, !.lp.deletingId = 0]
              ELSE w
       ELSE IF r.alive
         THEN [w EXCEPT !.alert = "Failed to delete chat", !.lp.deletingId = 0]
         ELSE [w EXCEPT !.alert = "Failed to delete chat"]

\* handleDeleteConfirm after the await: r.sid is the sessionToDelete of the
\* render that issued the call
ContinueDeleteConfirm(w, r) ==
  IF r.status = "ok"
    THEN IF r.alive
           THEN [w EXCEPT !.lp.history = SelectSeq(@, LAMBDA item : item # r.sid),
                          !.lp.showDeleteDialog = FALSE,
                          !.lp.sessionToDelete = 0, !.lp.deletingId = 0]
           ELSE w
    ELSE IF r.alive
      THEN [w EXCEPT !.alert = "Failed to delete chat", !.lp.deletingId = 0]
      ELSE [w EXCEPT !.alert = "Failed to delete chat"]

\* fetchChatDetails that reports a 404 like any other failed status
ContinueFetchChatDetailsNo404(w, r, outcome, body) ==
  IF ~r.alive THEN w
  ELSE CASE outcome = "json" ->
              [w EXCEPT !.cdp.chatDetails = body, !.cdp.loading = FALSE]
         [] OTHER ->
              [w EXCEPT !.cdp.error = outcome, !.cdp.chatDetails = 0,
                        !.cdp.loading = FALSE]

\* fetchChatDetails after the await.  outcome: what came back; body: the
\* parsed JSON of an OK response, 0 for null
ContinueFetchChatDetails(w, r, outcome, body) ==
  IF ~r.alive THEN w
  ELSE CASE outcome = "404" ->
              [w EXCEPT !.cdp.loading = FALSE, !.cdp.chatDetails = 0, !.cdp.error = ""]
         [] outcome = "json" ->
              [w EXCEPT !.cdp.chatDetails = body, !.cdp.loading = FALSE]
         [] OTHER ->
              [w EXCEPT !.cdp.error = outcome, !.cdp.chatDetails = 0,
                        !.cdp.loading = FALSE]

\* the landing page with its dialog closed
HomeOpen == route = "/" /\ ~lp.showDeleteDialog

\* the entries are rendered when the list is loaded without an error
EntriesShown == HomeOpen /\ ~lp.loading /\ lp.error = ""

DeleteClick ==
  /\ EntriesShown
  /\ \E i \in DOMAIN lp.history : Step(handleDeleteClick(World, lp.history[i]))
  /\ Backend

\* both dialog buttons are disabled while deletingId is set
DeleteCancel ==
  /\ route = "/" /\ lp.showDeleteDialog /\ lp.deletingId = 0
  /\ Step(handleDeleteCancel(World))
  /\ Backend

DeleteConfirm ==
  /\ route = "/" /\ lp.showDeleteDialog /\ lp.deletingId = 0
  /\ Step(handleDeleteConfirm(World))
  /\ Backend

\* a click on an entry: navigate(`/history/chat/${item.session_id}`)
ChatOpen ==
  /\ EntriesShown
  /\ \E i \in DOMAIN lp.history :
       Step([navigate(World, "/history/chat", FALSE)
               EXCEPT !.cdp.sessionId = lp.history[i]])
  /\ Backend

\* "Back to Home" of the detail page, or the browser's back button: the
\* landing page mounts and fetches the recent chats
BackToHome ==
  /\ route = "/history/chat"
  /\ Step(fetchHistory(navigate(World, "/", FALSE)))
  /\ Backend

\* the i-th pending call is the one of handler
Pending(i, handler) == i \in DOMAIN inflight /\ inflight[i].handler = handler

\* inflight without its i-th call
Taken(i) == [World EXCEPT !.inflight = RemoveAt(@, i)]

HistoryReturnsAt(i, ok, data) ==
  /\ Pending(i, "fetchHistory")
  /\ Step(ContinueFetchHistory(Taken(i), Answered(inflight[i], ok), data))
  /\ Backend

HistoryReturns ==
  \E i \in DOMAIN inflight : \E data \in HistoryLists : HistoryReturnsAt(i, TRUE, data)

HistoryFails == \E i \in DOMAIN inflight : HistoryReturnsAt(i, FALSE, << >>)

DeleteReturnsAt(i, ok) ==
  /\ Pending(i, "handleDeleteConfirm")
  /\ Step(ContinueDeleteConfirm(Taken(i), Answered(inflight[i], ok)))
  /\ Backend

DeleteReturns == \E i \in DOMAIN inflight : DeleteReturnsAt(i, TRUE)
DeleteFails == \E i \in DOMAIN inflight : DeleteReturnsAt(i, FALSE)

DetailReturnsAt(i, outcome, body) ==
  /\ Pending(i, "fetchChatDetails")
  /\ Step(ContinueFetchChatDetails(Taken(i), Answered(inflight[i], outcome = "json"),
                                   outcome, body))
  /\ Backend

DetailReturns ==
  \E i \in DOMAIN inflight : \E outcome \in DetailOutcomes :
    \E body \in (IF outcome = "json" THEN {0, inflight[i].sid} ELSE {0}) :
      DetailReturnsAt(i, outcome, body)

\* A consumer of the context calls clearActiveSession from a handler
ClearActiveSession ==
  /\ Step(clearActiveSession(World))
  /\ Backend

\* Something outside the components (another tab of the origin, the
\* developer tools) leaves text that is not JSON under one of the keys.
StorageKeys == {"active", "uploadData", "uploadMeta"}

StorageCorrupted ==
  /\ \E key \in StorageKeys :
       /\ ls[key] # Malformed
       /\ ls' = [ls EXCEPT ![key] = Malformed]
  /\ UNCHANGED <<ctx, sec, up, ap, lp, cdp, route, locState, inflight, sessions, chatSends>>

\* ----------------------------------------------------------- specification
Init ==
  /\ ctx = InitCtx
  /\ ls = InitLs
  /\ sec = InitSec
  /\ up = InitUp
  /\ ap = InitAp
  /\ lp = InitLp
  /\ cdp = InitCdp
  /\ route = "/"
  /\ locState = FALSE
  /\ inflight = << >>
  /\ sessions = << >>
  /\ chatSends = 0

\* The application is opened on a browser where an earlier visit left a SEC
\* session under finscope_active_session.  Since then the company may have
\* been renamed and the filing relisted (amended form, new date); the
\* backend still holds the session.
StoredCompanyNames == {"T1 Inc", "T1 Corp"}
StoredFilings == {Listed("F1"), Filing("F1", "10-K/A", "2024-03-15"), Listed("F2")}
StoredSelections ==
  {[some |-> TRUE, ticker |-> t, company_name |-> n, selected_filing |-> f] :
     t \in Tickers, n \in StoredCompanyNames, f \in StoredFilings}

StoredSession(sel) ==
  JSONstringify(
    [analysisData |-> [some |-> TRUE, sessionId |-> 1, executiveSummary |-> 1,
                       newsArticles |-> 1, chatMessages |-> << >>, sourceType |-> ""],
     selectionMetadata |-> sel, secWorkflowData |-> sel])

InitStored ==
  /\ route = "/"
  /\ locState = FALSE
  /\ chatSends = 0
  /\ \E sel \in StoredSelections :
       LET w == ReloadedFrom([InitLs EXCEPT !.active = StoredSession(sel)])
       IN /\ ctx = w.ctx
          /\ ls = w.ls
          /\ sec = w.sec
          /\ up = w.up
          /\ ap = w.ap
          /\ lp = w.lp
          /\ cdp = w.cdp
          /\ inflight = w.inflight
          /\ sessions = <<[workflowType |-> "sec", sel |-> sel, meta |-> NullMetadata,
                           fileSize |-> 0,
                           live |-> TRUE, messages |-> << >>]>>

Next ==
  \/ LinkCompany
  \/ LinkUpload
  \/ BrowserBack
  \/ Reload
  \/ StorageCorrupted
  \/ CompanySelect
  \/ ClearSelection
  \/ FetchFilings
  \/ FilingSelect
  \/ SecStartAnalysis
  \/ SecResumeAnalysis
  \/ ConflictStartNew
  \/ ConflictResumeExisting
  \/ SecBackClick
  \/ SecBackConfirm
  \/ SecBackCancel
  \/ InputChange
  \/ FileSelect
  \/ RevisedFileSelect
  \/ RemoveFile
  \/ UploadButtonClick
  \/ ReplaceProceed
  \/ ReplaceResumeCurrent
  \/ ReplaceClose
  \/ UploadBackClick
  \/ UploadBackCancel
  \/ UploadBackProceed
  \/ AnalysisBack
  \/ SendMessage
  \/ EndSessionClick
  \/ EndSessionConfirm
  \/ EndSessionCancel
  \/ TimerFires
  \/ ResponseOk
  \/ ResponseFail

Spec == Init /\ [][Next]_vars

\* The user works in the SEC workflow only
SecEvents ==
  \/ CompanySelect
  \/ ClearSelection
  \/ FetchFilings
  \/ FilingSelect
  \/ SecStartAnalysis
  \/ SecResumeAnalysis
  \/ ConflictStartNew
  \/ ConflictResumeExisting
  \/ SecBackClick
  \/ SecBackConfirm
  \/ SecBackCancel

\* The user works in the upload workflow only
UploadEvents ==
  \/ InputChange
  \/ FileSelect
  \/ RemoveFile
  \/ UploadButtonClick
  \/ ReplaceProceed
  \/ ReplaceResumeCurrent
  \/ ReplaceClose
  \/ UploadBackClick
  \/ UploadBackCancel
  \/ UploadBackProceed

AnalysisEvents ==
  \/ AnalysisBack
  \/ EndSessionClick
  \/ EndSessionConfirm
  \/ EndSessionCancel

NextSec ==
  \/ LinkCompany
  \/ BrowserBack
  \/ Reload
  \/ SecEvents
  \/ AnalysisEvents
  \/ ResponseOk
  \/ ResponseFail

NextUpload ==
  \/ LinkUpload
  \/ BrowserBack
  \/ Reload
  \/ UploadEvents
  \/ AnalysisEvents
  \/ TimerFires
  \/ ResponseOk
  \/ ResponseFail

\* The user starts analyses in both workflows and ends sessions, moving
\* between the pages with the browser's back button
NextCross ==
  \/ LinkCompany
  \/ LinkUpload
  \/ BrowserBack
  \/ CompanySelect
  \/ FetchFilings
  \/ FilingSelect
  \/ SecStartAnalysis
  \/ InputChange
  \/ FileSelect
  \/ UploadButtonClick
  \/ TimerFires
  \/ EndSessionClick
  \/ EndSessionConfirm
  \/ ResponseOk
  \/ ResponseFail

\* The user starts upload analyses and reloads the page while the stored
\* items may have been damaged
NextStore ==
  \/ LinkUpload
  \/ BrowserBack
  \/ Reload
  \/ StorageCorrupted
  \/ InputChange
  \/ FileSelect
  \/ UploadButtonClick
  \/ AnalysisBack
  \/ TimerFires
  \/ ResponseOk
  \/ ResponseFail

SpecStore == Init /\ [][NextStore]_vars

\* The user picks filings on the search page against the stored session
NextSelect ==
  \/ LinkCompany
  \/ BrowserBack
  \/ CompanySelect
  \/ ClearSelection
  \/ FetchFilings
  \/ FilingSelect
  \/ SecStartAnalysis
  \/ SecResumeAnalysis
  \/ ConflictStartNew
  \/ ConflictResumeExisting
  \/ ResponseOk
  \/ ResponseFail

SpecSelect == InitStored /\ [][NextSelect]_vars

\* The user edits the upload form against a session, choosing revised files
NextDirty ==
  \/ LinkUpload
  \/ BrowserBack
  \/ InputChange
  \/ FileSelect
  \/ RevisedFileSelect
  \/ RemoveFile
  \/ UploadButtonClick
  \/ ReplaceClose
  \/ AnalysisBack
  \/ TimerFires
  \/ ResponseOk
  \/ ResponseFail

SpecDirty == Init /\ [][NextDirty]_vars

\* The user talks to a SEC session, leaving the dashboard and coming back
NextSecChat ==
  \/ LinkCompany
  \/ BrowserBack
  \/ CompanySelect
  \/ FetchFilings
  \/ FilingSelect
  \/ SecStartAnalysis
  \/ SecResumeAnalysis
  \/ AnalysisBack
  \/ SendMessage
  \/ ResponseOk
  \/ ResponseFail

\* The user talks to an upload session, leaving the dashboard and coming back
NextUploadChat ==
  \/ LinkUpload
  \/ BrowserBack
  \/ Reload
  \/ InputChange
  \/ FileSelect
  \/ UploadButtonClick
  \/ AnalysisBack
  \/ SendMessage
  \/ TimerFires
  \/ ResponseOk
  \/ ResponseFail

SpecSecChat == Init /\ [][NextSecChat]_vars
SpecUploadChat == Init /\ [][NextUploadChat]_vars

\* The user starts analyses in both workflows from complete and incomplete
\* forms; the backend answers every call with 2xx
NextValidate ==
  \/ LinkCompany
  \/ LinkUpload
  \/ BrowserBack
  \/ CompanySelect
  \/ ClearSelection
  \/ FetchFilings
  \/ FilingSelect
  \/ SecStartAnalysis
  \/ ConflictStartNew
  \/ InputChange
  \/ FileSelect
  \/ UploadButtonClick
  \/ ReplaceProceed
  \/ ResponseOk

SpecValidate == Init /\ [][NextValidate]_vars

SpecSec == Init /\ [][NextSec]_vars
SpecUpload == Init /\ [][NextUpload]_vars
SpecCross == Init /\ [][NextCross]_vars

\* ------------------------------------------------------------------ claims
\* creation calls (start-analysis, upload-analysis) among the fetches q
NumCreates(q) == Cardinality({j \in DOMAIN q : IsCreate(q[j])})

\* the step issued a creation call
IssuesCreate == NumCreates(inflight') > NumCreates(inflight)

\* the provider holds a record of session s
Held(c, s) ==
  \/ c.analysisData.some /\ c.analysisData.sessionId = s
  \/ c.uploadAnalysisData.some /\ c.uploadAnalysisData.sessionId = s

\* the stored item holds a record of session s
Stores(store, s) ==
  \/ /\ ParseOk(store.active)
     /\ JSONparse(store.active).analysisData.some
     /\ JSONparse(store.active).analysisData.sessionId = s
  \/ /\ ParseOk(store.uploadData)
     /\ JSONparse(store.uploadData).some
     /\ JSONparse(store.uploadData).sessionId = s

\* the backend still keeps session s alive
Live(b, s) == s \in DOMAIN b /\ b[s].live

\* C1: in a replace, a failed end-session call aborts the replace: the
\* session record stays unchanged in memory and in the store and no creation
\* call for the new selection is issued.
C1_ReplaceAbortedWhenEndFails ==
  [][\A i \in DOMAIN inflight :
       (inflight[i].handler = "proceedWithNewAnalysis" /\ Respond(i, FALSE))
         => /\ ctx'.analysisData = ctx.analysisData
            /\ ctx'.selectionMetadata = ctx.selectionMetadata
            /\ ls' = ls
            /\ NumCreates(inflight') <= NumCreates(RemoveAt(inflight, i))]_vars

\* C2: every replace, SEC or upload, clears the record of the old session
\* and goes on to the creation call only after an end-session call for the
\* old sessionId returned success: once the replace has cleared the record,
\* the backend no longer keeps the old session alive.
C2_EndConfirmedBeforeReplace ==
  [][/\ ReplaceProceed => ~Live(sessions', ctx.uploadAnalysisData.sessionId)
     /\ \A i \in DOMAIN inflight : \A ok \in BOOLEAN :
          (inflight[i].handler = "proceedWithNewAnalysis" /\ Respond(i, ok))
            => ~Live(sessions', inflight[i].sid)]_vars

\* C3: while a session of one workflow is active, an explicit start in the
\* other workflow issues no creation call and starts no replace before the
\* user was asked: upload 'Start Analysis' issues nothing, SEC 'Start
\* Analysis' opens the conflict dialog.
C3_OtherWorkflowStartAsksFirst ==
  [][/\ (UploadButtonClick /\ ctx.analysisData.some /\ ~IsUploadWorkflow(ctx)
           /\ Live(sessions, ctx.analysisData.sessionId))
          => ~IssuesCreate
     /\ (SecStartAnalysis /\ IsUploadWorkflow(ctx)
           /\ Live(sessions, ctx.analysisData.sessionId))
          => (sec'.showConflictDialog /\ inflight' = inflight)]_vars

\* C4: a confirmed Back on the SEC page or on the upload page removes the
\* record of a session from memory only when an end-session call for it
\* returned success: no session the step stops holding is alive afterwards.
C4_NoAbandonWithoutEnd ==
  [][(\/ UploadBackProceed
      \/ \E i \in DOMAIN inflight : \E ok \in BOOLEAN :
           inflight[i].handler = "handleBackConfirm" /\ Respond(i, ok))
       => \A s \in DOMAIN sessions :
            (Held(ctx, s) /\ ~Held(ctx', s)) => ~Live(sessions', s)]_vars

\* C5: at most one creation call is in flight at any time.
C5_OneCreateInFlight == NumCreates(inflight) <= 1

\* C6: a reload on the analysis page showing a committed, not ended session
\* brings the same session back: same analysisData and origin selection, the
\* page shows it again, with no error and no creation call.
C6_SessionSurvivesReload ==
  [][(/\ Reload
      /\ Dashboard
      /\ ctx.analysisData.some
      /\ ap.sessionId = ctx.analysisData.sessionId
      /\ Live(sessions, ctx.analysisData.sessionId))
       => /\ ctx'.analysisData = ctx.analysisData
          /\ ctx'.selectionMetadata = ctx.selectionMetadata
          /\ ctx'.secWorkflowData = ctx.secWorkflowData
          /\ ap'.error = ""
          /\ ap'.sessionId = ap.sessionId
          /\ NumCreates(inflight') = 0]_vars

\* C7: a failed explicit end-session call (End Session on the analysis page,
\* confirmed Back on the SEC page) leaves the session as it was, in memory
\* and in the store.
C7_FailedEndLeavesSession ==
  [][\A i \in DOMAIN inflight :
       (/\ inflight[i].handler \in {"handleEndSessionConfirm", "handleBackConfirm"}
        /\ Respond(i, FALSE))
         => /\ ctx'.analysisData = ctx.analysisData
            /\ ctx'.secWorkflowData = ctx.secWorkflowData
            /\ ctx'.selectionMetadata = ctx.selectionMetadata
            /\ ctx'.uploadAnalysisData = ctx.uploadAnalysisData
            /\ ls' = ls]_vars

\* C8: a successful End Session leaves the Empty state: analysisData,
\* secWorkflowData and selectionMetadata are null, the upload records of the
\* ended session are null, and no stored item holds the ended sessionId.
C8_EndedSessionIsCleared ==
  [][\A i \in DOMAIN inflight :
       (inflight[i].handler = "handleEndSessionConfirm" /\ Respond(i, TRUE))
         => /\ ~ctx'.analysisData.some
            /\ ~ctx'.secWorkflowData.some
            /\ ~ctx'.selectionMetadata.some
            /\ (ctx.uploadAnalysisData.some
                  /\ ctx.uploadAnalysisData.sessionId = inflight[i].sid)
                 => (~ctx'.uploadAnalysisData.some /\ ~ctx'.uploadMetadata.some)
            /\ ~Held(ctx', inflight[i].sid)
            /\ ~Stores(ls', inflight[i].sid)]_vars

\* C9: a creation that fails, by validation or at the gateway, commits no
\* session, leaves the committed state as it was and keeps the pending
\* selection (upload: the file and the metadata that were sent), also when
\* it was started by the Replace Session modal.
C9_FailedCreateKeepsState ==
  [][/\ (ReplaceProceed /\ ~IssuesCreate)
          => /\ ctx'.uploadAnalysisData = ctx.uploadAnalysisData
             /\ ctx'.analysisData = ctx.analysisData
     /\ \A i \in DOMAIN inflight :
          (/\ inflight[i].kind = "upload-analysis"
           /\ inflight[i].alive
           /\ Respond(i, FALSE))
            => /\ ctx'.analysisData = ctx.analysisData
               /\ ctx'.uploadAnalysisData = ctx.uploadAnalysisData
               /\ ctx'.uploadMetadata = inflight[i].meta
               /\ ctx'.selectedUploadFile.some
               /\ ctx'.selectedUploadFile.name = inflight[i].fileName]_vars

\* C10: the committed SEC session is the one the backend created for the
\* selection the provider holds as its origin; a late creation result for
\* another selection does not get committed.
C10_SessionPairedWithItsOrigin ==
  (/\ ctx.analysisData.some
   /\ ctx.analysisData.sessionId \in DOMAIN sessions
   /\ sessions[ctx.analysisData.sessionId].workflowType = "sec"
   /\ ctx.selectionMetadata.some)
    => sessions[ctx.analysisData.sessionId].sel = ctx.selectionMetadata

\* the origin selection the provider keeps for the session in analysisData:
\* selectionMetadata for a SEC session, the submitted metadata and file name
\* in uploadAnalysisData for an upload session
C11_OriginPaired ==
  LET ad == ctx.analysisData
      uad == ctx.uploadAnalysisData
  IN (ad.some /\ ad.sessionId \in DOMAIN sessions)
       => /\ ad.executiveSummary = ad.sessionId
          /\ ad.newsArticles = ad.sessionId
          /\ (sessions[ad.sessionId].workflowType = "sec" /\ ctx.selectionMetadata.some)
               => ctx.selectionMetadata = sessions[ad.sessionId].sel
          /\ (sessions[ad.sessionId].workflowType = "upload"
                /\ uad.some /\ uad.sessionId = ad.sessionId)
               => uad.submittedMetadata = [sessions[ad.sessionId].meta EXCEPT !.some = TRUE]

\* while analysisData keeps its sessionId, summary, news and origin stay
C11_OriginImmutable ==
  [][(/\ ctx.analysisData.some /\ ctx'.analysisData.some
      /\ ctx.analysisData.sessionId # 0
      /\ ctx'.analysisData.sessionId = ctx.analysisData.sessionId)
       => /\ ctx'.analysisData.executiveSummary = ctx.analysisData.executiveSummary
          /\ ctx'.analysisData.newsArticles = ctx.analysisData.newsArticles
          /\ ctx'.selectionMetadata = ctx.selectionMetadata
          /\ (ctx.uploadAnalysisData.some /\ ctx'.uploadAnalysisData.some
                /\ ctx'.uploadAnalysisData.sessionId = ctx.uploadAnalysisData.sessionId)
               => ctx'.uploadAnalysisData = ctx.uploadAnalysisData]_vars

\* C11: the origin selection of the active session is the selection sent in
\* the creation request that returned its sessionId, and summary, news and
\* origin do not change while the sessionId stays the same.
C11_OriginIsTheRequestedOne == []C11_OriginPaired /\ C11_OriginImmutable

\* user messages of a transcript that are followed by their error message
FailedSends(seq) ==
  Cardinality({j \in DOMAIN seq :
                 /\ j < Len(seq)
                 /\ seq[j] = UserMessage
                 /\ seq[j + 1] = ErrorMessage})

\* the transcript the frontend holds for the session in analysisData: the
\* one on screen while the analysis page shows that session, else the stored one
SessionTranscript ==
  IF route = "/analysis" /\ ap.sessionId = ctx.analysisData.sessionId
    THEN displayChatMessages
    ELSE ctx.analysisData.chatMessages

\* the provider keeps the same session over the step
SameSession ==
  /\ ctx.analysisData.some /\ ctx'.analysisData.some
  /\ ctx.analysisData.sessionId # 0
  /\ ctx'.analysisData.sessionId = ctx.analysisData.sessionId

\* a failed chat call leaves [..., userMsg, errorMsg] on screen
C12_FailedSendShown ==
  [][\A i \in DOMAIN inflight :
       (inflight[i].kind = "chat" /\ inflight[i].alive /\ Respond(i, FALSE))
         => /\ displayChatMessages # << >>
            /\ displayChatMessages[Len(displayChatMessages)] = UserMessage
            /\ displayChatMessages' = Append(displayChatMessages, ErrorMessage)]_vars

\* no step within a session removes a user message whose send failed
C12_UserMessageKept ==
  [][SameSession
       => FailedSends(SessionTranscript') >= FailedSends(SessionTranscript)]_vars

\* C12: after a failed chat call the transcript is the previous one followed
\* by the user message and an error message, and the user message is never
\* removed afterwards within the session (further sends, leaving and
\* resuming the analysis page, reload).
C12_UserMessageSurvivesFailure == C12_FailedSendShown /\ C12_UserMessageKept

\* chat sends in flight for session s
ChatsInFlight(s) ==
  Cardinality({j \in DOMAIN inflight :
                 inflight[j].kind = "chat" /\ inflight[j].sid = s})

\* every user message but a last, pending one is followed by an assistant or
\* error message, and every such message follows a user message
Paired(seq) ==
  \A j \in DOMAIN seq :
    IF seq[j].role = "user"
      THEN j < Len(seq) => seq[j + 1].role = "assistant"
      ELSE j > 1 /\ seq[j - 1].role = "user"

C13_OneSendPerSession == \A s \in DOMAIN sessions : ChatsInFlight(s) <= 1

C13_RepliesFollowTheirMessage ==
  /\ Paired(ap.chatMessages)
  /\ Paired(ctx.analysisData.chatMessages)

\* C13: the reply or error message of a chat send stands right after its
\* user message, and at most one chat send per sessionId is in flight.
C13_SendsDoNotInterleave == C13_OneSendPerSession /\ C13_RepliesFollowTheirMessage

\* C14: an accepted send shows the user message at once: the transcript on
\* screen after the click is the one before it followed by the user message,
\* in the SEC and in the upload workflow.
C14_UserMessageShownAtOnce ==
  [][SendMessage
       => displayChatMessages' = Append(displayChatMessages, UserMessage)]_vars

IsPrefix(a, b) == Len(a) <= Len(b) /\ SubSeq(b, 1, Len(a)) = a

\* across leaving and resuming the page too, the session's transcript only grows
C15_KeptAppendOnly ==
  [][SameSession => IsPrefix(SessionTranscript, SessionTranscript')]_vars

\* C15: within a session the transcript is append-only: while the dashboard
\* keeps showing one session, under every interleaving of chat sends, the
\* background history refresh and re-runs of the start effect, every new
\* value of the transcript on screen has the previous value as a prefix.
C15_TranscriptAppendOnly ==
  [][(/\ SameSession
      /\ Dashboard /\ Dashboard'
      /\ ap.sessionId = ctx.analysisData.sessionId
      /\ ap'.sessionId = ap.sessionId)
       => IsPrefix(displayChatMessages, displayChatMessages')]_vars

\* the provider holds an upload session that the analysis page resumes
\* (not the first display after the upload, which location.state marks)
UploadSessionStored ==
  /\ IsUploadWorkflow(ctx)
  /\ ctx.analysisData.sessionId # 0
  /\ ~ctx.secWorkflowData.some

\* the dashboard shows the session of analysisData with its stored transcript
Exposed ==
  /\ Dashboard
  /\ ap.sessionId = ctx.analysisData.sessionId
  /\ ap.executiveSummary = ctx.analysisData.executiveSummary
  /\ displayChatMessages = ctx.analysisData.chatMessages

\* the step that opens the analysis page on the stored upload session
C16_ResumeNotBlocked ==
  [][(/\ UploadSessionStored
      /\ route # "/analysis" /\ route' = "/analysis" /\ ~locState'
      /\ ctx'.analysisData = ctx.analysisData)
       => Exposed']_vars

\* a failed or empty history fetch changes no transcript
C16_EmptyRefreshKeepsLocal ==
  [][\A i \in DOMAIN inflight :
       (/\ inflight[i].handler = "startAnalysis.refresh"
        /\ \/ Respond(i, FALSE)
           \/ Respond(i, TRUE) /\ sessions[inflight[i].sid].messages = << >>)
         => /\ ap'.chatMessages = ap.chatMessages
            /\ ctx'.analysisData = ctx.analysisData]_vars

\* C16: resuming an upload session shows the stored session in the step that
\* opens the analysis page, before any gateway response, and a history fetch
\* that fails or returns no messages changes no transcript.
C16_RefreshNeitherBlocksNorErases ==
  C16_ResumeNotBlocked /\ C16_EmptyRefreshKeepsLocal

\* a resumed upload session is on screen, its history fetch is pending and
\* would come back empty, and the page holds a transcript of its own
C16_ResumedWithRefreshPending ==
  /\ UploadSessionStored /\ ~locState /\ Dashboard
  /\ ap.sessionId = ctx.analysisData.sessionId
  /\ ap.chatMessages # << >>
  /\ \E i \in DOMAIN inflight :
       /\ inflight[i].handler = "startAnalysis.refresh"
       /\ inflight[i].alive
       /\ inflight[i].sid = ap.sessionId
       /\ sessions[inflight[i].sid].messages = << >>

\* end-session calls among the fetches q
NumEnds(q) == Cardinality({j \in DOMAIN q : q[j].kind = "end-session"})

\* the step is a click on one of the resume buttons
ResumeClick ==
  \/ SecResumeAnalysis
  \/ ConflictResumeExisting
  \/ ReplaceResumeCurrent
  \/ UploadButtonClick /\ buttonText(World) = "Resume Analysis"

\* C17: a resume issues no create and no end-session call and leaves the
\* session record (sessionId, summary, news, chat messages) and its origin
\* selection as they were.
C17_ResumeChangesNothing ==
  [][ResumeClick
       => /\ NumCreates(inflight') <= NumCreates(inflight)
          /\ NumEnds(inflight') <= NumEnds(inflight)
          /\ ctx'.analysisData = ctx.analysisData
          /\ ctx'.selectionMetadata = ctx.selectionMetadata
          /\ ctx'.uploadAnalysisData = ctx.uploadAnalysisData]_vars

\* the store with every damaged item taken away
WithoutMalformed(store) ==
  [key \in DOMAIN store |-> IF store[key] = Malformed THEN Absent ELSE store[key]]

HasMalformed(store) == \E key \in DOMAIN store : store[key] = Malformed

\* no session data in the provider and nothing stored
Empty(w) == w.ctx = InitCtx /\ w.ls = InitLs

\* C18: a load from a store with damaged items ends in the state that the
\* load from the same store without those items ends in, and when nothing
\* else is stored that state is the empty one.
C18_MalformedLikeAbsent ==
  /\ ReloadedFrom(ls) = ReloadedFrom(WithoutMalformed(ls))
  /\ WithoutMalformed(ls) = InitLs => Empty(ReloadedFrom(ls))

\* a load would find a damaged upload record next to a stored session
C18_DamagedBesideSession ==
  /\ ls.uploadData = Malformed
  /\ ParseOk(ls.active)
  /\ ReloadedFrom(ls).ctx.analysisData.some
  /\ ~ReloadedFrom(ls).ctx.uploadAnalysisData.some

\* the pending selection has the ticker and the accession number of the
\* session's origin selection
PendingMatchesOrigin ==
  /\ sec.selectedCompany = ctx.selectionMetadata.ticker
  /\ sec.selectedFiling.accession_number
       = ctx.selectionMetadata.selected_filing.accession_number

\* a session with its origin is held and a company and a filing are selected
PendingAgainstSession ==
  /\ ctx.analysisData.some /\ ctx.selectionMetadata.some
  /\ sec.selectedCompany # "" /\ sec.selectedFiling # NullFiling

\* the analysis page opened on the pending selection
OpenedOnPending ==
  SecStart([World EXCEPT
              !.ctx.secWorkflowData = Selection(sec.selectedCompany, sec.selectedFiling)])

ComparesWithSession ==
  /\ route = "/upload"
  /\ HasActiveAnalysis(ctx) /\ IsUploadWorkflow(ctx)
  /\ ctx.analysisData.sessionId = ctx.uploadAnalysisData.sessionId
  /\ ctx.uploadAnalysisData.sessionId \in DOMAIN sessions
  /\ up.submittedMetadata.some

\* the form holds what was submitted for session s: the four fields and the
\* file's name and size
SameUploadSelection(s) ==
  /\ ctx.uploadMetadata.companyName = s.meta.companyName
  /\ ctx.uploadMetadata.docTitle = s.meta.docTitle
  /\ ctx.uploadMetadata.docType = s.meta.docType
  /\ ctx.uploadMetadata.year = s.meta.year
  /\ ctx.selectedUploadFile.name = ctx.uploadAnalysisData.submittedFileName
  /\ ctx.selectedUploadFile.size = s.fileSize

\* C20: against the active upload session the form is clean exactly when the
\* four metadata fields equal the submitted ones and the chosen file has the
\* name and the size of the submitted file.
C20_CleanIffSameUpload ==
  ComparesWithSession
    => (~isDirty(World)
          <=> SameUploadSelection(sessions[ctx.uploadAnalysisData.sessionId]))

\* no session is held: the session record of the provider is null
NoSession == ~ctx.analysisData.some

\* C21 (button): with no session the primary button of either page reads
\* 'Start Analysis'.
C21_EmptyButton ==
  NoSession
    => /\ SecButtonShown => ~hasAnalysisForCurrentSelection(World)
       /\ UploadPageOpen => buttonText(World) = "Start Analysis"

\* C21 (click): with no session a click on the primary button opens no
\* conflict dialog and no replace modal, and a SEC start goes straight to the
\* create call.
C21_EmptyClick ==
  [][NoSession
       => /\ SecStartAnalysis
               => /\ ~sec'.showConflictDialog
                  /\ NumCreates(inflight') = NumCreates(inflight) + 1
          /\ UploadButtonClick => ~up'.showReplaceModal /\ route' # "/analysis"]_vars

\* C21: when no session is active the status is Empty whatever is selected:
\* the button reads 'Start Analysis' and a click starts the creation with no
\* prompt.
C21_EmptyStartsDirectly == []C21_EmptyButton /\ C21_EmptyClick

\* the SEC page shows its button for a selection other than the session's
SecDirty == SecButtonShown /\ PendingAgainstSession /\ ~PendingMatchesOrigin

\* the upload page shows its button over a form that differs from the session
UploadDirty == UploadPageOpen /\ ComparesWithSession /\ isDirty(World)

\* C22 (button): with a session held and another selection pending, the
\* button of either page reads 'Start New Analysis'.
C22_DirtyButton ==
  /\ SecDirty => secButtonText(World) = "Start New Analysis"
  /\ UploadDirty => buttonText(World) = "Start New Analysis"

\* C22 (click): in that status a click opens the prompt and issues no call.
C22_DirtyClick ==
  [][/\ SecDirty /\ SecStartAnalysis
          => sec'.showConflictDialog /\ inflight' = inflight
     /\ UploadDirty /\ UploadButtonClick
          => up'.showReplaceModal /\ inflight' = inflight]_vars

\* C22: the button is the same function of the status in both workflows: for
\* an active session and a differing pending selection it reads 'Start New
\* Analysis' and a click opens the resume-or-replace prompt without a call.
C22_DirtyPromptsInBothWorkflows == []C22_DirtyButton /\ C22_DirtyClick

\* an unsubmitted draft is held while no session is: the provider has the
\* form's fields, the store has them under finscope_upload_meta
DraftWithoutSession ==
  /\ NoSession /\ ~ctx.uploadAnalysisData.some
  /\ ctx.uploadMetadata.some
  /\ ls.uploadMeta = JSONstringify(ctx.uploadMetadata)

\* C23: the upload draft survives without a session: entering the upload
\* page again, or loading the page anew, leaves the draft fields in the
\* provider (from where the form is filled) and in the store.
C23_DraftSurvives ==
  [][DraftWithoutSession /\ (LinkUpload \/ Reload)
       => /\ ctx'.uploadMetadata = ctx.uploadMetadata
          /\ ls'.uploadMeta = ls.uploadMeta]_vars

\* the upload form lacks a required field: no file, or a blank company name
UploadInvalid ==
  ~ctx.selectedUploadFile.some \/ trim(ctx.uploadMetadata.companyName) = ""

\* the search page lacks a company or a filing
SecInvalid == sec.selectedCompany = "" \/ sec.selectedFiling = NullFiling

\* the step is a start of an upload analysis: the button under its label
\* 'Start Analysis', or 'Start New' of the replace modal
UploadStartClick ==
  \/ UploadButtonClick /\ buttonText(World) = "Start Analysis"
  \/ ReplaceProceed

\* the step is a start of a SEC analysis: the button, or 'Start New' of the
\* conflict dialog
SecStartClick == SecStartAnalysis \/ ConflictStartNew

CreateOrEnd(r) == IsCreate(r) \/ r.kind = "end-session"

\* what the continuation of the i-th pending fetch does when the call fails
AfterFailure(i) ==
  Continue([World EXCEPT !.inflight = RemoveAt(@, i)], Answered(inflight[i], FALSE))

\* C25: when a create, replace or end-session call fails, the step that takes
\* the failure raises an alert or leaves an error on screen (the error screen
\* of the analysis page, the inline error of the upload form).
C25_FailureSurfaced ==
  [][\A i \in DOMAIN inflight :
       CreateOrEnd(inflight[i]) /\ Respond(i, FALSE)
         => \/ AfterFailure(i).alert # ""
            \/ route' = "/analysis" /\ ap'.error # ""
            \/ route' = "/upload" /\ up'.fileError]_vars

\* end-session calls in flight for session s
EndsInFlight(s) ==
  Cardinality({j \in DOMAIN inflight :
                 inflight[j].kind = "end-session" /\ inflight[j].sid = s})

\* C26: at most one end-session call per sessionId is in flight, whichever of
\* End Session, Start New and the confirmed Back issued it.
C26_OneEndPerSession == \A s \in DOMAIN sessions : EndsInFlight(s) <= 1

\* the dashboard is rendered (neither the loading nor the error screen) for a
\* session the backend knows
DashboardShown ==
  /\ route = "/analysis" /\ ~ap.loading /\ ap.error = ""
  /\ ap.sessionId \in DOMAIN sessions

\* the header above the dashboard names the selection session s was created for
\* (an upload header may fall back to "Unknown Company")
HeaderOf(s) ==
  IF sessions[s].workflowType = "sec"
    THEN /\ ap.companyInfo.ticker = sessions[s].sel.ticker
         /\ ap.companyInfo.filing.accession_number =
              sessions[s].sel.selected_filing.accession_number
    ELSE /\ ap.companyInfo.ticker = ""
         /\ ap.companyInfo.companyName \in {sessions[s].meta.companyName, "Unknown Company"}

\* C27: the analysis page never shows one session's sessionId or summary
\* together with the company or filing of a different selection.
C27_DashboardOfOneSelection ==
  (DashboardShown /\ ap.companyInfo.some)
    => /\ ap.executiveSummary \in {0, ap.sessionId}
       /\ HeaderOf(ap.sessionId)

\* the upload result u carries a sessionId that analysisData does not hold as
\* an upload session, or that the backend has already ended
StaleUpload(u) ==
  /\ u.some /\ u.sessionId # 0
  /\ \/ ~ctx.analysisData.some
     \/ ctx.analysisData.sessionId # u.sessionId
     \/ ctx.analysisData.sourceType # "upload"
     \/ (u.sessionId \in DOMAIN sessions /\ ~sessions[u.sessionId].live)

\* C28: a sessionId in uploadAnalysisData, or in a readable
\* finscope_upload_data, is the sessionId of analysisData, which is then an
\* upload session, and is not an ended one.
C28_SingleSessionIdentity ==
  /\ ~StaleUpload(ctx.uploadAnalysisData)
  /\ ParseOk(ls.uploadData) => ~StaleUpload(JSONparse(ls.uploadData))

\* the page is loaded on the home route (no page effect runs beside the
\* provider's) with a readable finscope_active_session
LoadsRecord == Reload /\ route = "/" /\ ParseOk(ls.active)

\* C29: loading a well-formed finscope_active_session restores analysisData,
\* selectionMetadata and secWorkflowData as stored, and the save effect
\* writes the record back unchanged.
C29_LoadRestoresRecord ==
  [][LoadsRecord => /\ ActiveSessionRecord(ctx') = JSONparse(ls.active)
                    /\ ls'.active = ls.active]_vars

\* what the save effect leaves under finscope_active_session for provider state c
SavedFor(c) ==
  IF c.analysisData.some \/ c.selectionMetadata.some \/ c.secWorkflowData.some
    THEN JSONstringify(ActiveSessionRecord(c))
    ELSE Absent

\* C30: between event-loop turns finscope_active_session exists exactly when
\* one of analysisData, selectionMetadata, secWorkflowData is non-null, and
\* then holds the three in-memory values.
C30_RecordAgreesWithMemory == ls.active = SavedFor(ctx)

\* a page has ended a session and removed the key itself, and the record of
\* the selection analysed next is in place
C30_RecordAfterStartNew ==
  /\ route = "/analysis"
  /\ ~ctx.analysisData.some /\ ctx.secWorkflowData.some
  /\ \E s \in DOMAIN sessions : ~sessions[s].live
  /\ ls.active = JSONstringify(ActiveSessionRecord(ctx))

\* the page as loaded, before any event
Loaded ==
  [ctx |-> InitCtx, ls |-> InitLs, sec |-> InitSec, up |-> InitUp, ap |-> InitAp,
   lp |-> InitLp, cdp |-> InitCdp,
   route |-> "/", locState |-> FALSE, inflight |-> << >>, dirty |-> {}, alert |-> "", thrown |-> ""]

\* the handler's result rendered and the effects run
After(old, w) == [Flush(old, w) EXCEPT !.dirty = {}]

\* the upload form filled in: the upload page opened, a company name typed
\* and a document chosen
FilledIn ==
  LET w1 == After(Loaded, navigate(Loaded, "/upload", FALSE))
      w2 == After(w1, handleInputChange(w1, "companyName", "Acme"))
  IN After(w2, handleFileSelect(w2, [some |-> TRUE, name |-> <<"a", ".", "p", "d", "f">>,
                                     size |-> 1]))

\* the search page opened
SearchOpened == After(Loaded, navigate(Loaded, "/company", FALSE))

\* The user has filled in the upload form or has opened the search page
InitFilledIn ==
  /\ \E w \in {FilledIn, SearchOpened} :
       /\ ctx = w.ctx
       /\ ls = w.ls
       /\ sec = w.sec
       /\ up = w.up
       /\ ap = w.ap
       /\ lp = w.lp
       /\ cdp = w.cdp
       /\ route = w.route
       /\ locState = w.locState
       /\ inflight = w.inflight
  /\ sessions = << >>
  /\ chatSends = 0

\* The user submits the filled-in form or selects a filing and starts its
\* analysis, talks to the session and ends it, leaving and reopening the
\* pages; every call is answered in the end and a timer that stays armed fires.
NextLatch ==
  \/ LinkUpload
  \/ BrowserBack
  \/ UploadButtonClick
  \/ CompanySelect
  \/ FetchFilings
  \/ FilingSelect
  \/ SecStartAnalysis
  \/ SendMessage
  \/ EndSessionClick
  \/ EndSessionConfirm
  \/ TimerFires
  \/ ResponseOk
  \/ ResponseFail

\* the oldest call in flight returns
OldestReturns == inflight # << >> /\ (Respond(1, TRUE) \/ Respond(1, FALSE))

\* WF_vars(OldestReturns) with its ENABLED written out: a call in flight can
\* always return (with a failure at least), so the oldest one does in the end
CallsReturn == []<>(inflight = << >>) \/ []<><<OldestReturns>>_vars

SpecLatch ==
  InitFilledIn /\ [][NextLatch]_vars /\ CallsReturn /\ WF_vars(TimerFires)

\* the loading screen of the analysis page is up
LoadingShown == route = "/analysis" /\ ap.loading

\* C31: each in-flight latch that is set is released again once the calls have
\* returned: sendingMessage, endingSession, the upload page's isLoading, the
\* provider's analysisLoading and the analysis page's loading screen.
C31_LatchesReleased ==
  /\ ap.sendingMessage ~> ~ap.sendingMessage
  /\ ap.endingSession ~> ~ap.endingSession
  /\ up.isLoading ~> ~up.isLoading
  /\ ctx.analysisLoading ~> ~ctx.analysisLoading
  /\ LoadingShown ~> ~LoadingShown

\* a chat call has failed on the mounted dashboard and the input is free again
C31_ReleasedAfterFailedSend ==
  /\ route = "/analysis" /\ ~ap.sendingMessage
  /\ ap.chatMessages # << >>
  /\ ap.chatMessages[Len(ap.chatMessages)] = ErrorMessage
  /\ \A j \in DOMAIN inflight : inflight[j].kind # "chat"

\* C32: on the search page a filing is selected only while a company is
\* selected, so the step-3 panel never reads the fields of a null company.
C32_FilingOnlyWithCompany ==
  (route = "/company" /\ sec.selectedFiling # NullFiling) => sec.selectedCompany # ""

\* The user fills in the upload form with files of any kind and submits it
NextFiles ==
  \/ LinkUpload
  \/ BrowserBack
  \/ InputChange
  \/ DropFile
  \/ RemoveFile
  \/ UploadButtonClick
  \/ ResponseOk
  \/ ResponseFail

SpecFiles == Init /\ [][NextFiles]_vars

\* name ends in the characters of suffix
EndsIn(name, suffix) ==
  /\ Len(name) >= Len(suffix)
  /\ SubSeq(name, Len(name) - Len(suffix) + 1, Len(name)) = suffix

\* the file rules: a PDF or TXT name in any case, at most 10 MB
FileRules(file) ==
  /\ \/ EndsIn(toLowerCase(file.name), <<".", "p", "d", "f">>)
     \/ EndsIn(toLowerCase(file.name), <<".", "t", "x", "t">>)
  /\ file.size <= 10 * 1024 * 1024

\* the user picks this file
DropOf(file) ==
  /\ UploadPageOpen /\ ~ctx.selectedUploadFile.some
  /\ Step(handleFileSelect(World, file))
  /\ Backend

\* selectedUploadFile is null or a file that satisfies the file rules
C33_SelectedFileValid ==
  ctx.selectedUploadFile.some => FileRules(ctx.selectedUploadFile)

\* a file that breaks the rules leaves selectedUploadFile null and a file error
C33_RejectedFile ==
  [][\A name \in DroppedNames : \A size \in DroppedSizes :
       LET file == [some |-> TRUE, name |-> name, size |-> size]
       IN (~FileRules(file) /\ DropOf(file))
            => (ctx'.selectedUploadFile = NullFile /\ up'.fileError)]_vars

\* C33: the selected upload file always satisfies the file rules (a .pdf or
\* .txt name in any case, at most 10 MB), and a file that breaks them is
\* rejected: selectedUploadFile is null and a file error is set.
C33_FileRulesKept == []C33_SelectedFileValid /\ C33_RejectedFile

\* a file of exactly 10 MB with an upper-case extension is selected
C33_LargestFileSelected ==
  /\ ctx.selectedUploadFile.some
  /\ ctx.selectedUploadFile.size = 10485760
  /\ ctx.selectedUploadFile.name = <<"a", ".", "P", "d", "F">>

\* The user starts analyses in both workflows, opens the confirmation dialogs
\* and cancels or confirms them; the backend answers every call with 2xx
NextCancel ==
  \/ LinkCompany
  \/ LinkUpload
  \/ CompanySelect
  \/ FetchFilings
  \/ FilingSelect
  \/ SecStartAnalysis
  \/ SecBackClick
  \/ SecBackConfirm
  \/ SecBackCancel
  \/ InputChange
  \/ FileSelect
  \/ UploadButtonClick
  \/ ReplaceClose
  \/ UploadBackClick
  \/ UploadBackCancel
  \/ AnalysisBack
  \/ EndSessionClick
  \/ EndSessionCancel
  \/ TimerFires
  \/ ResponseOk

SpecCancel == Init /\ [][NextCancel]_vars

\* Cancel or close on one of the confirmation dialogs
CancelClick == SecBackCancel \/ EndSessionCancel \/ UploadBackCancel \/ ReplaceClose

\* C36: cancelling a confirmation (Back warning of either workflow, End
\* Session dialog, Replace Session modal) closes the dialog and nothing else:
\* no call is issued, session data, pending selection and persisted records
\* stay as they were.
C36_CancelOnlyClosesDialog ==
  [][CancelClick =>
       /\ ctx' = ctx /\ ls' = ls /\ inflight' = inflight /\ sessions' = sessions
       /\ route' = route /\ locState' = locState
       /\ sec' = [sec EXCEPT !.showBackWarningDialog = FALSE]
       /\ ap' = [ap EXCEPT !.showEndSessionDialog = FALSE]
       /\ up' = [up EXCEPT !.showReplaceModal = up'.showReplaceModal,
                           !.showBackWarningModal = up'.showBackWarningModal]
       /\ up'.showReplaceModal => up.showReplaceModal
       /\ up'.showBackWarningModal => up.showBackWarningModal]_vars

\* the Back warning was cancelled while its confirmed end-session call is
\* still pending: the dialog is closed, the call and the session are as before
C36_CancelledWhileEnding ==
  /\ route = "/company" /\ ~sec.showBackWarningDialog
  /\ ctx.analysisData.some
  /\ \E j \in DOMAIN inflight :
       inflight[j].handler = "handleBackConfirm" /\ inflight[j].alive

\* The user selects filings and starts SEC analyses; at any moment a consumer
\* of the context may call clearActiveSession
NextClear ==
  \/ LinkCompany
  \/ BrowserBack
  \/ CompanySelect
  \/ FetchFilings
  \/ FilingSelect
  \/ SecStartAnalysis
  \/ ClearActiveSession
  \/ ResponseOk
  \/ ResponseFail

SpecClear == Init /\ [][NextClear]_vars

\* C37: after clearActiveSession analysisData, selectionMetadata and
\* secWorkflowData are null, finscope_active_session is removed, and the call
\* raised no error.
C37_ClearLeavesNothing ==
  [][ClearActiveSession =>
       /\ ~ctx'.analysisData.some
       /\ ~ctx'.selectionMetadata.some
       /\ ~ctx'.secWorkflowData.some
       /\ ls'.active = Absent
       /\ clearActiveSession(World).thrown = ""]_vars

\* the landing page as loaded: its mount effect has asked for the recent chats
HomeOpened == fetchHistory(Loaded)

InitHistory ==
  /\ ctx = HomeOpened.ctx
  /\ ls = HomeOpened.ls
  /\ sec = HomeOpened.sec
  /\ up = HomeOpened.up
  /\ ap = HomeOpened.ap
  /\ lp = HomeOpened.lp
  /\ cdp = HomeOpened.cdp
  /\ route = HomeOpened.route
  /\ locState = HomeOpened.locState
  /\ inflight = HomeOpened.inflight
  /\ sessions = << >>
  /\ chatSends = 0

\* The user browses the recent chats: deletes entries, opens one and returns
NextHistory ==
  \/ HistoryReturns
  \/ HistoryFails
  \/ DeleteClick
  \/ DeleteCancel
  \/ DeleteConfirm
  \/ DeleteReturns
  \/ DeleteFails
  \/ ChatOpen
  \/ BackToHome
  \/ DetailReturns

SpecHistory == InitHistory /\ [][NextHistory]_vars

\* list without the entries of session sid
RECURSIVE Without(_, _)
Without(list, sid) ==
  IF list = << >> THEN << >>
  ELSE IF Head(list) = sid THEN Without(Tail(list), sid)
  ELSE <<Head(list)>> \o Without(Tail(list), sid)

DeletesInFlight == {i \in DOMAIN inflight : inflight[i].handler = "handleDeleteConfirm"}

\* C34 (the second delete): at most one delete call is in flight, and while it
\* is, the dialog is open with deletingId set, which disables both buttons
C34_OneDeleteAtATime ==
  /\ Cardinality(DeletesInFlight) <= 1
  /\ DeletesInFlight # {} => (route = "/" /\ lp.showDeleteDialog /\ lp.deletingId # 0)

\* C34 (the result): a successful delete removes exactly the entries of that
\* session and closes the dialog, a failed one leaves the list and the open
\* dialog; deletingId is null after both
C34_DeleteResult ==
  [][\A i \in DOMAIN inflight :
       /\ DeleteReturnsAt(i, TRUE) =>
            /\ lp'.history = Without(lp.history, inflight[i].sid)
            /\ ~lp'.showDeleteDialog
            /\ lp'.deletingId = 0
       /\ DeleteReturnsAt(i, FALSE) =>
            /\ lp'.history = lp.history
            /\ lp'.showDeleteDialog
            /\ lp'.deletingId = 0]_vars

\* C34: Deleting a history entry on the landing page removes exactly the
\* entries with that session_id and closes the dialog if the call succeeds,
\* leaves the list unchanged and the dialog open if it fails, returns
\* deletingId to null in both cases, and no second delete can start while one
\* is in flight.
C34_DeleteHistoryEntry == []C34_OneDeleteAtATime /\ C34_DeleteResult

\* a delete is in flight for a session the list shows twice
C34_DeletingListedTwice ==
  \E i \in DeletesInFlight :
    /\ lp.deletingId = inflight[i].sid
    /\ lp.showDeleteDialog
    /\ Cardinality({j \in DOMAIN lp.history : lp.history[j] = inflight[i].sid}) = 2

\* the three states the detail page renders once loading is over
NotFoundState == ~cdp.loading /\ cdp.error = "" /\ cdp.chatDetails = 0
ErrorState == ~cdp.loading /\ cdp.error # "" /\ cdp.chatDetails = 0
DetailsState == ~cdp.loading /\ cdp.error = "" /\ cdp.chatDetails # 0

\* the fetch of the mounted detail page returns with outcome and body
DetailArrives(outcome, body) ==
  \E i \in DOMAIN inflight : inflight[i].alive /\ DetailReturnsAt(i, outcome, body)

\* C35: The chat detail page ends in exactly one outcome after its fetch
\* returns: not found (error null, chatDetails null) on a 404, the error state
\* with chatDetails null on another non-OK status, a non-JSON response or a
\* transport failure, the details on an OK JSON response; loading is false in
\* every outcome.
C35_OneOutcomePerResponse ==
  [][\A outcome \in DetailOutcomes : \A body \in HistoryIds \cup {0} :
       DetailArrives(outcome, body) =>
         CASE outcome = "404" -> NotFoundState'
           [] outcome = "json" -> DetailsState'
           [] OTHER -> ErrorState']_vars

\* C35 as amended: as above, but an OK JSON response gives the details only
\* when its body is not empty; with an empty body (null) the page is in the
\* not-found state.
C35_OneOutcomePerBody ==
  [][\A outcome \in DetailOutcomes : \A body \in HistoryIds \cup {0} :
       DetailArrives(outcome, body) =>
         CASE outcome = "404" -> NotFoundState'
           [] outcome = "json" /\ body # 0 -> DetailsState' /\ cdp'.chatDetails = body
           [] outcome = "json" /\ body = 0 -> NotFoundState'
           [] OTHER -> ErrorState']_vars

\* the detail page shows the details of the session it was opened for
C35_DetailsShown ==
  route = "/history/chat" /\ DetailsState /\ cdp.chatDetails = cdp.sessionId

====
